---- MODULE Spec2Model ----
(***************************************************************************)
(* Praeparo: configuration composition, parameter binding, query planning  *)
(* and frame execution, modelled from the Python sources.                  *)
(*                                                                         *)
(* YAML values are tagged records, one field name per Python type, so that *)
(* values of different types compare unequal:                              *)
(*   [s |-> "text"]   str without "{{"                                     *)
(*   [t |-> <<seg>>]  str holding "{{": literal and placeholder segments   *)
(*   [i |-> 3]        int          [b |-> TRUE]  bool                      *)
(*   [n |-> 0]        None         [l |-> <<v>>] list                      *)
(*   [m |-> f]        dict, f a function from keys to values               *)
(***************************************************************************)
EXTENDS Integers, Sequences, FiniteSets, TLC

VARIABLES
    \* _merge_dicts applied as a fold (yaml_loader.py:90-99)
    mBase, mUpdate, mMerged, mCount,
    \* render_template / _render_with_context on one template and mapping
    rShape, rTemplate, rValues, rOut, rStrict, rDone,
    \* load_matrix_config after composition: overrides, parameters, binding,
    \* the function the caller called with them, and the document as
    \* _apply_parameter_templates left it
    bLabel, bFilter, bBase, bChild, bMerged, bOverrides, bParams, bDoc, bData, bContext, bResult, bPc,
    bEntry, bBound,
    \* load_visual_config: the files, the _load_composed_yaml call stack,
    \* the calls made so far, and the loader's position and outcome
    cFiles, cRoot, cStack, cCalls, cRet, cData, cPhase, cChild, cChildren, cVisual, cResult,
    cErr,
    \* DaxBackedMatrixPlanner.plan: the run's options and context, the client's
    \* behaviour, the provider key, and the calls made and their outcome
    pOptions, pCaseKey, pConfigPath, pClient, pKey, pPc, pDataset, pErr, pClientCalls,
    pResolverCalls, pMockCalls,
    \* _FrameStrategy.execute: the frame's children, what executing each one
    \* does, the context, the loop's position and lists, the calls made so
    \* far, the files written, and the outcome
    fChildren, fOutcomes, fCase, fTargets, fIndex, fPc, fLog, fResults, fPairs, fFigure,
    fResult, fErr, fOptions, fFiles,
    \* _MatrixStrategy.execute: the visual, what the planner returns, the
    \* options and targets, whether kaleido is installed, the dataset's rows,
    \* the position, the files written, and the outcome
    xVisual, xPlanner, xOptions, xTargets, xKaleido, xRows, xPc, xFiles, xResult, xErr,
    \* extract_field_references and build_matrix_query: the row templates,
    \* the visual, the row fields found, the plan built, and the position
    qTemplates, qConfig, qFields, qPlan, qPc,
    \* cli.run on one matrix document: the document, the visual loaded, the
    \* row fields and the query compiled from it, and the position
    vData, vVisual, vFields, vQuery, vPc,
    \* two calls of load_matrix_config with one overrides object: the file's
    \* document, the overrides object as it is and as the caller built it, the
    \* parameter overrides of the calls, the calls made, the document of the
    \* call in hand, its keys whose value is the caller's object, the position,
    \* and what the calls returned
    oFile, oOverrides, oGiven, oParams, oCall, oData, oShared, oPc, oResults,
    \* PowerBIClient with concurrent callers: what each caller calls and where
    \* it is, the holder of the lock and the callers waiting for it, the cached
    \* token and its expiry, the clock, the requests sent, the token each caller
    \* got, and the number of tokens issued
    tKind, tPc, tLock, tWaiters, tAccess, tExpires, tNow, tLog, tGot, tIssued

mergeVars == <<mBase, mUpdate, mMerged, mCount>>
renderVars == <<rShape, rTemplate, rValues, rOut, rStrict, rDone>>
bindVars ==
    <<bLabel, bFilter, bBase, bChild, bMerged, bOverrides, bParams, bDoc, bData, bContext,
      bResult, bPc, bEntry, bBound>>
composeVars ==
    <<cFiles, cRoot, cStack, cCalls, cRet, cData, cPhase, cChild, cChildren, cVisual, cResult,
      cErr>>
planVars ==
    <<pOptions, pCaseKey, pConfigPath, pClient, pKey, pPc, pDataset, pErr, pClientCalls,
      pResolverCalls, pMockCalls>>
frameVars ==
    <<fChildren, fOutcomes, fCase, fTargets, fIndex, fPc, fLog, fResults, fPairs, fFigure,
      fResult, fErr, fOptions, fFiles>>
execVars == <<xVisual, xPlanner, xOptions, xTargets, xKaleido, xRows, xPc, xFiles, xResult, xErr>>
queryVars == <<qTemplates, qConfig, qFields, qPlan, qPc>>
validateVars == <<vData, vVisual, vFields, vQuery, vPc>>
reloadVars == <<oFile, oOverrides, oGiven, oParams, oCall, oData, oShared, oPc, oResults>>
tokenVars == <<tKind, tPc, tLock, tWaiters, tAccess, tExpires, tNow, tLog, tGot, tIssued>>
vars ==
    <<mergeVars, renderVars, bindVars, composeVars, planVars, frameVars, execVars, queryVars,
      validateVars, reloadVars, tokenVars>>

\* What each specification leaves alone
exceptMerge ==
    <<renderVars, bindVars, composeVars, planVars, frameVars, execVars, queryVars,
      validateVars, reloadVars, tokenVars>>
exceptRender ==
    <<mergeVars, bindVars, composeVars, planVars, frameVars, execVars, queryVars,
      validateVars, reloadVars, tokenVars>>
exceptBind ==
    <<mergeVars, renderVars, composeVars, planVars, frameVars, execVars, queryVars,
      validateVars, reloadVars, tokenVars>>
exceptCompose ==
    <<mergeVars, renderVars, bindVars, planVars, frameVars, execVars, queryVars,
      validateVars, reloadVars, tokenVars>>
exceptPlan ==
    <<mergeVars, renderVars, bindVars, composeVars, frameVars, execVars, queryVars,
      validateVars, reloadVars, tokenVars>>
exceptFrame ==
    <<mergeVars, renderVars, bindVars, composeVars, planVars, execVars, queryVars,
      validateVars, reloadVars, tokenVars>>
exceptExec ==
    <<mergeVars, renderVars, bindVars, composeVars, planVars, frameVars, queryVars,
      validateVars, reloadVars, tokenVars>>
exceptQuery ==
    <<mergeVars, renderVars, bindVars, composeVars, planVars, frameVars, execVars,
      validateVars, reloadVars, tokenVars>>
exceptValidate ==
    <<mergeVars, renderVars, bindVars, composeVars, planVars, frameVars, execVars,
      queryVars, reloadVars, tokenVars>>
exceptReload ==
    <<mergeVars, renderVars, bindVars, composeVars, planVars,
      frameVars, execVars, queryVars, validateVars, tokenVars>>
exceptToken ==
    <<mergeVars, renderVars, bindVars, composeVars, planVars,
      frameVars, execVars, queryVars, validateVars, reloadVars>>

----------------------------------------------------------------------------
(* Values *)

Str(x) == [s |-> x]
Tpl(segs) == [t |-> segs]
IntV(x) == [i |-> x]
BoolV(x) == [b |-> x]
None == [n |-> 0]
List(q) == [l |-> q]
Map(f) == [m |-> f]

EmptyDict == <<>>

\* isinstance(v, dict) / isinstance(v, Mapping)
IsDict(v) == DOMAIN v = {"m"}
\* isinstance(v, list)
IsList(v) == DOMAIN v = {"l"}
\* isinstance(v, str)
IsStr(v) == DOMAIN v = {"s"} \/ DOMAIN v = {"t"}
IsNone(v) == DOMAIN v = {"n"}

\* dict.get(key): None when the key is absent
Get(d, k) == IF k \in DOMAIN d THEN d[k] ELSE None

\* {key: value for key, value in d.items() if key not in ks}
Without(d, ks) == [k \in DOMAIN d \ ks |-> d[k]]

\* All dicts over the keys ks with values in vs (every subset of ks as domain).
DictsOver(ks, vs) == UNION {[dom -> vs] : dom \in SUBSET ks}

----------------------------------------------------------------------------
(* _merge_dicts, yaml_loader.py:47-58 *)

\* A merge that replaces every overlapping key wholesale (no recursion).
ShallowMerge(base, update) ==
    [k \in DOMAIN base \cup DOMAIN update |->
        IF k \in DOMAIN update THEN update[k] ELSE base[k]]

RECURSIVE _merge_dicts(_, _)
_merge_dicts(base, update) ==
    [k \in DOMAIN base \cup DOMAIN update |->
        IF k \in DOMAIN update
        THEN IF k \in DOMAIN base /\ IsDict(base[k]) /\ IsDict(update[k])
             THEN Map(_merge_dicts(base[k].m, update[k].m))
             ELSE update[k]
        ELSE base[k]]

----------------------------------------------------------------------------
(* Strings.  A str is an atomic TLA+ string; text that the code scans is a  *)
(* sequence of tokens: " " is whitespace, "|" the filter separator, any    *)
(* other token a run of characters holding neither.                        *)

Ok(v) == [ok |-> v]
Err(e) == [err |-> e]
IsOk(r) == DOMAIN r = {"ok"}
IsErr(r) == DOMAIN r = {"err"}

\* "".join(parts)
RECURSIVE Join(_)
Join(parts) == IF parts = <<>> THEN "" ELSE Head(parts) \o Join(Tail(parts))

RECURSIVE LStrip(_)
LStrip(q) == IF q # <<>> /\ Head(q) = " " THEN LStrip(Tail(q)) ELSE q

RECURSIVE RStrip(_)
RStrip(q) == IF q # <<>> /\ q[Len(q)] = " " THEN RStrip(SubSeq(q, 1, Len(q) - 1)) ELSE q

\* str.strip()
Strip(q) == RStrip(LStrip(q))

\* str.split("|", 1)[0]
RECURSIVE BeforePipe(_)
BeforePipe(q) ==
    IF q = <<>> \/ Head(q) = "|" THEN <<>> ELSE <<Head(q)>> \o BeforePipe(Tail(q))

Digits == <<"0", "1", "2", "3", "4", "5", "6", "7", "8", "9">>

\* str(n) for an int
RECURSIVE IntToStr(_)
IntToStr(n) ==
    IF n < 0 THEN "-" \o IntToStr(-n)
    ELSE IF n < 10 THEN Digits[n + 1]
    ELSE IntToStr(n \div 10) \o Digits[(n % 10) + 1]

\* The strings of the model in code-point order (Python's str ordering):
\* the empty string first, upper case before lower case.
CodePointOrder ==
    <<"", "Alpha", "City", "CityLabel", "FilterExpression", "Flag", "None", "Zed",
      "dim.City", "title">>

Rank(x) == CHOOSE i \in 1..Len(CodePointOrder) : CodePointOrder[i] = x

\* sorted(set(names))
RECURSIVE Sorted(_)
Sorted(S) ==
    IF S = {} THEN <<>>
    ELSE LET least == CHOOSE x \in S : \A y \in S : Rank(x) <= Rank(y)
         IN  <<least>> \o Sorted(S \ {least})

----------------------------------------------------------------------------
(* The parts of the state a specification does not use stay as they are    *)
(* here.                                                                   *)

MergeIdle == mBase = EmptyDict /\ mUpdate = EmptyDict /\ mMerged = EmptyDict /\ mCount = 0

RenderIdle ==
    /\ rShape = <<>> /\ rTemplate = Str("") /\ rValues = EmptyDict
    /\ rOut = "" /\ rStrict = Ok("") /\ rDone = {}

NoChoice == [shape |-> <<>>]

BindIdle ==
    /\ bLabel = NoChoice /\ bFilter = NoChoice
    /\ bBase = EmptyDict /\ bChild = EmptyDict
    /\ bMerged = EmptyDict /\ bOverrides = EmptyDict /\ bParams = EmptyDict
    /\ bDoc = EmptyDict /\ bData = EmptyDict /\ bContext = EmptyDict /\ bResult = Ok(EmptyDict) /\ bPc = "idle"
    /\ bEntry = "" /\ bBound = Ok(EmptyDict)

NoError == [kind |-> "none"]

ComposeIdle ==
    /\ cFiles = EmptyDict /\ cRoot = "" /\ cStack = <<>> /\ cCalls = <<>>
    /\ cRet = EmptyDict /\ cData = EmptyDict /\ cPhase = "idle" /\ cChild = 0
    /\ cChildren = <<>> /\ cVisual = Ok(EmptyDict) /\ cResult = NoError /\ cErr = NoError

PlanIdle ==
    /\ pOptions = EmptyDict /\ pCaseKey = None /\ pConfigPath = None /\ pClient = ""
    /\ pKey = None /\ pPc = "idle" /\ pDataset = NoError /\ pErr = NoError
    /\ pClientCalls = <<>> /\ pResolverCalls = <<>> /\ pMockCalls = 0

FrameIdle ==
    /\ fChildren = <<>> /\ fOutcomes = <<>> /\ fCase = None /\ fTargets = <<>>
    /\ fIndex = 0 /\ fPc = "idle" /\ fLog = <<>> /\ fResults = <<>> /\ fPairs = <<>>
    /\ fFigure = NoError /\ fResult = NoError /\ fErr = NoError
    /\ fOptions = EmptyDict /\ fFiles = <<>>

ExecIdle ==
    /\ xVisual = EmptyDict /\ xPlanner = Ok(EmptyDict) /\ xOptions = EmptyDict
    /\ xTargets = <<>> /\ xKaleido = FALSE /\ xRows = <<>> /\ xPc = "idle"
    /\ xFiles = <<>> /\ xResult = NoError /\ xErr = NoError

QueryIdle ==
    /\ qTemplates = <<>> /\ qConfig = EmptyDict /\ qFields = Ok(<<>>) /\ qPlan = NoError /\ qPc = "idle"

ValidateIdle ==
    /\ vData = EmptyDict /\ vVisual = Ok(EmptyDict) /\ vFields = Ok(<<>>) /\ vQuery = NoError
    /\ vPc = "idle"

ReloadIdle ==
    /\ oFile = EmptyDict /\ oOverrides = EmptyDict /\ oGiven = EmptyDict /\ oParams = <<>>
    /\ oCall = 0 /\ oData = EmptyDict /\ oShared = {} /\ oPc = "idle" /\ oResults = <<>>

TokenIdle ==
    /\ tKind = <<>> /\ tPc = <<>> /\ tLock = 0 /\ tWaiters = <<>> /\ tAccess = None
    /\ tExpires = None /\ tNow = 0 /\ tLog = <<>> /\ tGot = <<>> /\ tIssued = 0


----------------------------------------------------------------------------
(* templating.py *)

Lit(x) == [lit |-> x]
Ph(raw) == [ph |-> raw]
IsPh(seg) == DOMAIN seg = {"ph"}

\* JINJA_PLACEHOLDER / PLACEHOLDER_RE, group "expr": the text between the
\* braces without the surrounding whitespace that \s* consumes; of text
\* that is all whitespace the lazy [^}]+? keeps the last character.
MatchExpr(raw) == IF Strip(raw) = <<>> THEN <<" ">> ELSE Strip(raw)

\* templating.py:38-40
_clean_expression(expression) == Join(Strip(BeforePipe(expression)))

\* yaml_loader.py:28-30
_clean_placeholder(expression) == Join(Strip(BeforePipe(expression)))

\* The source text of a segment / of a str value
SegText(seg) == IF IsPh(seg) THEN "{{" \o Join(seg.ph) \o "}}" ELSE seg.lit
SourceText(segs) == Join([i \in 1..Len(segs) |-> SegText(segs[i])])

\* str(value)
PyStr(v) ==
    CASE DOMAIN v = {"s"} -> v.s
      [] DOMAIN v = {"t"} -> SourceText(v.t)
      [] DOMAIN v = {"i"} -> IntToStr(v.i)
      [] DOMAIN v = {"b"} -> IF v.b THEN "True" ELSE "False"
      [] DOMAIN v = {"n"} -> "None"

\* The segments of a str value: a str without "{{" has no placeholder.
Segments(v) == IF DOMAIN v = {"t"} THEN v.t ELSE <<Lit(v.s)>>

\* A render_template that leaves an unknown placeholder in the text.
RenderKeepUnknown(template, values) ==
    LET replace(seg) ==
            IF IsPh(seg)
            THEN LET expr == _clean_expression(MatchExpr(seg.ph))
                 IN  IF expr \in DOMAIN values /\ ~IsNone(values[expr])
                     THEN PyStr(values[expr]) ELSE SegText(seg)
            ELSE seg.lit
        segs == Segments(template)
    IN  Join([i \in 1..Len(segs) |-> replace(segs[i])])

\* templating.py:80-90
render_template(template, values) ==
    LET replace(seg) ==
            IF IsPh(seg)
            THEN LET expr == _clean_expression(MatchExpr(seg.ph))
                     value == Get(values, expr)
                 IN  IF IsNone(value) THEN "" ELSE PyStr(value)
            ELSE seg.lit
        segs == Segments(template)
    IN  Join([i \in 1..Len(segs) |-> replace(segs[i])])

\* A _render_with_context that reports the missing names as met, neither
\* deduplicated nor sorted.
RenderWithContextUnsorted(value, context, location) ==
    LET segs == Segments(value)
        matches == SelectSeq(segs, IsPh)
        exprs == [i \in 1..Len(matches) |-> _clean_placeholder(MatchExpr(matches[i].ph))]
        missing == SelectSeq(exprs, LAMBDA e : e \notin DOMAIN context)
    IN  IF missing # <<>>
        THEN Err([kind |-> "unresolved", location |-> location, names |-> missing])
        ELSE Ok(render_template(value, context))

\* yaml_loader.py:33-44
_render_with_context(value, context, location) ==
    LET segs == Segments(value)
        matches == SelectSeq(segs, IsPh)
        exprs == [i \in 1..Len(matches) |-> _clean_placeholder(MatchExpr(matches[i].ph))]
        missing == SelectSeq(exprs, LAMBDA e : e \notin DOMAIN context)
        rendered == render_template(value, context)
    IN  IF missing # <<>>
        THEN Err([kind |-> "unresolved", location |-> location,
                  names |-> Sorted({missing[i] : i \in 1..Len(missing)})])
        ELSE Ok(rendered)

----------------------------------------------------------------------------
(* models/matrix.py: MatrixConfig.model_validate *)

\* str.strip() of an atomic string: the strings of the model that carry
\* outer whitespace, with what strip leaves of them.
StripTable ==
    [x \in {" ", " Total ", " City ", " Mock ", " Percent of column total ",
            " MEASURE m = 1 ", " dim.City "} |->
        CASE x = " " -> "" [] x = " Total " -> "Total" [] x = " City " -> "City"
          [] x = " Mock " -> "Mock"
          [] x = " dim.City " -> "dim.City"
          [] x = " Percent of column total " -> "Percent of column total"
          [] x = " MEASURE m = 1 " -> "MEASURE m = 1"]

StripStr(x) == IF x \in DOMAIN StripTable THEN StripTable[x] ELSE x

\* value.strip() of a str value; a str holding "{{" has no outer whitespace
StripValue(v) == IF DOMAIN v = {"s"} THEN Str(StripStr(v.s)) ELSE v

\* Optional[str] field: absent or None, or a str
OptStrOk(d, k) == k \notin DOMAIN d \/ IsNone(d[k]) \/ IsStr(d[k])

\* matrix.py:47-53, 80-86, 215-221: strip, and None when nothing is left
NormalizeOptional(d, k) ==
    IF k \notin DOMAIN d \/ IsNone(d[k]) THEN None
    ELSE IF StripValue(d[k]) = Str("") THEN None ELSE StripValue(d[k])

\* matrix.py:223-244: a str row becomes {"template": row}
RowDict(item) == IF IsStr(item) THEN [k \in {"template"} |-> item] ELSE item.m

\* RowTemplate, matrix.py:56-86
RowOk(item) ==
    /\ IsStr(item) \/ IsDict(item)
    /\ LET d == RowDict(item)
       IN  /\ DOMAIN d \subseteq {"template", "label", "hidden"}
           /\ "template" \in DOMAIN d
           /\ IsStr(d["template"])
           /\ StripValue(d["template"]) # Str("")
           /\ OptStrOk(d, "label")
           /\ "hidden" \in DOMAIN d => DOMAIN d["hidden"] = {"b"}

RowModel(item) ==
    LET d == RowDict(item)
    IN  [template |-> StripValue(d["template"]),
         label |-> NormalizeOptional(d, "label"),
         hidden |-> IF "hidden" \in DOMAIN d THEN d["hidden"].b ELSE FALSE]

\* MatrixValueConfig, matrix.py:18-53
ValueOk(item) ==
    /\ IsDict(item)
    /\ LET d == item.m
       IN  /\ DOMAIN d \subseteq {"id", "show_as", "label", "format"}
           /\ "id" \in DOMAIN d
           /\ IsStr(d["id"])
           /\ StripValue(d["id"]) # Str("")
           /\ OptStrOk(d, "show_as") /\ OptStrOk(d, "label") /\ OptStrOk(d, "format")

\* A value model that keeps the label as it was given
ValueModelNoDefault(item) ==
    LET d == item.m
    IN  [id |-> StripValue(d["id"]),
         show_as |-> NormalizeOptional(d, "show_as"),
         label |-> NormalizeOptional(d, "label"),
         format |-> NormalizeOptional(d, "format")]

\* matrix.py:254-259: the label defaults to the id
ValueModel(item) ==
    LET d == item.m
        id == StripValue(d["id"])
    IN  [id |-> id,
         show_as |-> NormalizeOptional(d, "show_as"),
         label |-> IF NormalizeOptional(d, "label") = None THEN id
                   ELSE NormalizeOptional(d, "label"),
         format |-> NormalizeOptional(d, "format")]

\* "table.column" strings of the model split at the first "."
FieldParts == [x \in {"dim.City", "dim.", ".City", "a.b.c"} |->
    CASE x = "dim.City" -> <<"dim", "City">>
      [] x = "dim." -> <<"dim", "">>
      [] x = ".City" -> <<"", "City">>
      [] x = "a.b.c" -> <<"a", "b.c">>]

\* A field check that asks for a non-empty field only
FilterFieldAny(v) == DOMAIN v = {"s"} /\ StripStr(v.s) # ""

\* matrix.py:107-123
FilterFieldOk(v) ==
    /\ DOMAIN v = {"s"}
    /\ StripStr(v.s) # ""
    /\ StripStr(v.s) \in DOMAIN FieldParts
    /\ FieldParts[StripStr(v.s)][1] # "" /\ FieldParts[StripStr(v.s)][2] # ""

\* matrix.py:125-151: a str becomes a one-item list; blank items are
\* dropped; what is left is deduplicated in order
RECURSIVE Dedupe(_)
Dedupe(q) ==
    IF q = <<>> THEN <<>>
    ELSE LET rest == Dedupe(SubSeq(q, 1, Len(q) - 1))
             last == q[Len(q)]
         IN  IF \E i \in 1..Len(rest) : rest[i] = last THEN rest ELSE rest \o <<last>>

IncludeItems(v) == IF IsStr(v) THEN <<v>> ELSE v.l

IncludeCleaned(v) ==
    LET kept == SelectSeq(IncludeItems(v),
                          LAMBDA x : ~IsNone(x) /\ StripStr(PyStr(x)) # "")
    IN  Dedupe([i \in 1..Len(kept) |-> Str(StripStr(PyStr(kept[i])))])

Present(d, k) == k \in DOMAIN d /\ ~IsNone(d[k])

\* MatrixFilterConfig, matrix.py:89-174
FilterOk(item) ==
    /\ IsDict(item)
    /\ LET d == item.m
       IN  /\ DOMAIN d \subseteq {"field", "include", "expression"}
           /\ Present(d, "field") => FilterFieldOk(d["field"])
           /\ Present(d, "include") =>
                /\ IsStr(d["include"]) \/ IsList(d["include"])
                /\ IncludeCleaned(d["include"]) # <<>>
           /\ Present(d, "expression") =>
                IsStr(d["expression"]) /\ StripValue(d["expression"]) # Str("")
           /\ IF Present(d, "expression")
              THEN ~Present(d, "field") /\ ~Present(d, "include")
              ELSE Present(d, "field") /\ Present(d, "include")

FilterModel(item) ==
    LET d == item.m
    IN  [field |-> IF Present(d, "field") THEN StripValue(d["field"]) ELSE None,
         include |-> IF Present(d, "include") THEN List(IncludeCleaned(d["include"])) ELSE None,
         expression |-> IF Present(d, "expression") THEN StripValue(d["expression"]) ELSE None]

MatrixFieldNames ==
    {"type", "title", "description", "define", "rows", "values", "totals",
     "filters", "autoHeight", "auto_height"}

\* MatrixConfig, matrix.py:178-259: `type` is required and must be "matrix"
MatrixOk(data) ==
    /\ DOMAIN data \subseteq MatrixFieldNames
    /\ "type" \in DOMAIN data /\ data["type"] = Str("matrix")
    /\ OptStrOk(data, "title") /\ OptStrOk(data, "description") /\ OptStrOk(data, "define")
    /\ "rows" \in DOMAIN data
    /\ IsList(data["rows"]) /\ data["rows"].l # <<>>
    /\ \A i \in 1..Len(data["rows"].l) : RowOk(data["rows"].l[i])
    /\ "values" \in DOMAIN data
    /\ IsList(data["values"]) /\ data["values"].l # <<>>
    /\ \A i \in 1..Len(data["values"].l) : ValueOk(data["values"].l[i])
    /\ \A i, j \in 1..Len(data["values"].l) :
            i # j => StripValue(data["values"].l[i].m["id"])
                        # StripValue(data["values"].l[j].m["id"])
    /\ "totals" \in DOMAIN data =>
            data["totals"] \in {Str("off"), Str("row"), Str("column"), Str("both")}
    /\ "filters" \in DOMAIN data =>
            /\ IsList(data["filters"])
            /\ \A i \in 1..Len(data["filters"].l) : FilterOk(data["filters"].l[i])
    /\ \A k \in {"autoHeight", "auto_height"} :
            k \in DOMAIN data => DOMAIN data[k] = {"b"}

MatrixModel(data) ==
    [type |-> "matrix",
     title |-> Get(data, "title"),
     description |-> Get(data, "description"),
     define |-> NormalizeOptional(data, "define"),
     rows |-> [i \in 1..Len(data["rows"].l) |-> RowModel(data["rows"].l[i])],
     values |-> [i \in 1..Len(data["values"].l) |-> ValueModel(data["values"].l[i])],
     totals |-> IF "totals" \in DOMAIN data THEN data["totals"].s ELSE "off",
     filters |-> IF "filters" \in DOMAIN data
                 THEN [i \in 1..Len(data["filters"].l) |-> FilterModel(data["filters"].l[i])]
                 ELSE <<>>,
     auto_height |-> IF "autoHeight" \in DOMAIN data THEN data["autoHeight"].b
                     ELSE IF "auto_height" \in DOMAIN data THEN data["auto_height"].b
                     ELSE TRUE]

\* MatrixConfig.model_validate(data), yaml_loader.py:139-143
ValidateMatrix(data) ==
    IF MatrixOk(data) THEN Ok(MatrixModel(data)) ELSE Err([kind |-> "validation"])

----------------------------------------------------------------------------
(* yaml_loader.py: the parameter binder *)

\* isinstance(value, (str, int, float, bool))
IsScalar(v) == IsStr(v) \/ DOMAIN v = {"i"} \/ DOMAIN v = {"b"}

\* A _build_context in which the document's keys are written last.
BuildContextDocumentLast(data, parameters) ==
    LET scalars == {k \in DOMAIN data : IsScalar(data[k])}
    IN  [k \in scalars \cup DOMAIN parameters |->
            IF k \in scalars THEN Str(PyStr(data[k])) ELSE Str(PyStr(parameters[k]))]

\* yaml_loader.py:102-109
_build_context(data, parameters) ==
    LET scalars == {k \in DOMAIN data : IsScalar(data[k])}
    IN  [k \in scalars \cup DOMAIN parameters |->
            IF k \in DOMAIN parameters THEN Str(PyStr(parameters[k]))
            ELSE Str(PyStr(data[k]))]

\* A binder that also re-renders the item's template
RenderItemAndTemplate(item, field, context, location) ==
    LET renderable(k) == IsDict(item) /\ k \in DOMAIN item.m /\ DOMAIN item.m[k] = {"t"}
        rendered(k) == _render_with_context(item.m[k], context, location)
        keys == {k \in {field, "template"} : renderable(k)}
        bad == {k \in keys : IsErr(rendered(k))}
    IN  IF bad # {} THEN rendered(CHOOSE k \in bad : TRUE)
        ELSE IF keys = {} THEN Ok(item)
        ELSE Ok(Map([k \in DOMAIN item.m |->
                        IF k \in keys THEN Str(rendered(k).ok) ELSE item.m[k]]))

\* One item of rows / filters: item[field] re-rendered when item is a
\* mapping and item[field] a str holding "{{" (yaml_loader.py:116-119, 124-127)
RenderItem(item, field, context, location) ==
    IF IsDict(item) /\ field \in DOMAIN item.m /\ DOMAIN item.m[field] = {"t"}
    THEN LET r == _render_with_context(item.m[field], context, location)
         IN  IF IsOk(r) THEN Ok(Map([item.m EXCEPT ![field] = Str(r.ok)])) ELSE r
    ELSE Ok(item)

\* The loop over a list: the first failing item raises
RECURSIVE RenderItems(_, _, _, _)
RenderItems(items, field, context, location) ==
    IF items = <<>> THEN Ok(<<>>)
    ELSE LET first == RenderItem(Head(items), field, context, location)
         IN  IF IsErr(first) THEN first
             ELSE LET rest == RenderItems(Tail(items), field, context, location)
                  IN  IF IsErr(rest) THEN rest ELSE Ok(<<first.ok>> \o rest.ok)

\* yaml_loader.py:112-127: row labels, then filter expressions
_apply_parameter_templates(data, context) ==
    LET rows == IF "rows" \in DOMAIN data /\ IsList(data["rows"])
                THEN RenderItems(data["rows"].l, "label", context, "row label")
                ELSE Ok(<<>>)
        withRows == IF "rows" \in DOMAIN data /\ IsList(data["rows"]) /\ IsOk(rows)
                    THEN [data EXCEPT !["rows"] = List(rows.ok)] ELSE data
        filters == IF "filters" \in DOMAIN data /\ IsList(data["filters"])
                   THEN RenderItems(data["filters"].l, "expression", context,
                                    "filter expression")
                   ELSE Ok(<<>>)
    IN  IF IsErr(rows) THEN rows
        ELSE IF IsErr(filters) THEN filters
        ELSE IF "filters" \in DOMAIN data /\ IsList(data["filters"])
             THEN Ok([withRows EXCEPT !["filters"] = List(filters.ok)])
             ELSE Ok(withRows)

\* `x or {}`: None, "", 0, False, [] and {} are falsy
Falsy(v) ==
    \/ IsNone(v) \/ v = Str("") \/ v = IntV(0) \/ v = BoolV(FALSE)
    \/ v = List(<<>>) \/ v = Map(EmptyDict)

\* data.pop("parameters", {}) or {}   (None while it is not a mapping)
PoppedParameters(data) ==
    IF "parameters" \notin DOMAIN data \/ Falsy(data["parameters"]) THEN Map(EmptyDict)
    ELSE data["parameters"]

\* yaml_loader.py:130-143
_finalize_matrix_config(data) ==
    LET parameters == PoppedParameters(data)
        rest == Without(data, {"parameters"})
    IN  IF ~IsDict(parameters) THEN Err([kind |-> "parameters"])
        ELSE LET bound == _apply_parameter_templates(rest, _build_context(rest, parameters.m))
             IN  IF IsErr(bound) THEN bound ELSE ValidateMatrix(bound.ok)

----------------------------------------------------------------------------
(* Rendering one template against one mapping.  A template is drawn as a   *)
(* shape (literal text, or a name in one of the placeholder spellings) and *)
(* written out as the text the code scans.                                 *)

MaxSegments == 3

RenderNames == {"Flag", "City"}
ShapeItems ==
    {[text |-> "Flag = "]}
        \cup {[name |-> nm, form |-> f] : nm \in RenderNames, f \in {"bare", "padded", "filtered"}}
Shapes == UNION {[1..len -> ShapeItems] : len \in 0..MaxSegments}

\* {{Flag}}, {{ Flag }}, {{ Flag | upper }}
Spell(item) ==
    IF DOMAIN item = {"text"} THEN Lit(item.text)
    ELSE CASE item.form = "bare" -> Ph(<<item.name>>)
           [] item.form = "padded" -> Ph(<<" ", item.name, " ">>)
           [] item.form = "filtered" -> Ph(<<" ", item.name, " ", "|", " ", "upper", " ">>)

RenderValues == DictsOver(RenderNames, {Str("TRUE()"), IntV(42), None})

InitRender ==
    /\ rShape \in Shapes
    /\ rTemplate = IF \E i \in 1..Len(rShape) : DOMAIN rShape[i] # {"text"}
                   THEN Tpl([i \in 1..Len(rShape) |-> Spell(rShape[i])])
                   ELSE Str(Join([i \in 1..Len(rShape) |-> rShape[i].text]))
    /\ rValues \in RenderValues
    /\ rOut = "" /\ rStrict = Ok("") /\ rDone = {}
    /\ MergeIdle /\ BindIdle /\ ComposeIdle /\ PlanIdle /\ FrameIdle /\ ExecIdle /\ QueryIdle
    /\ ValidateIdle

\* render_template(template, values), as the row renderer calls it
    /\ ReloadIdle
    /\ TokenIdle
RenderLenient ==
    /\ "lenient" \notin rDone
    /\ rOut' = render_template(rTemplate, rValues)
    /\ rDone' = rDone \cup {"lenient"}
    /\ UNCHANGED <<rShape, rTemplate, rValues, rStrict, exceptRender>>

\* _render_with_context(value, context, location=...), as the binder calls it
RenderStrict ==
    /\ "strict" \notin rDone
    /\ rStrict' = _render_with_context(rTemplate, rValues, "row label")
    /\ rDone' = rDone \cup {"strict"}
    /\ UNCHANGED <<rShape, rTemplate, rValues, rOut, exceptRender>>

NextRender == RenderLenient \/ RenderStrict

SpecRender == InitRender /\ [][NextRender]_vars

----------------------------------------------------------------------------
(* load_matrix_config on a document composed of a base and a child, with   *)
(* structural overrides and parameter overrides (yaml_loader.py:146-168).  *)

\* A label or filter expression: its shape, and its text as the code reads it
Choice(shape) ==
    [shape |-> shape,
     value |-> IF \E i \in 1..Len(shape) : DOMAIN shape[i] # {"text"}
               THEN Tpl([i \in 1..Len(shape) |-> Spell(shape[i])])
               ELSE Str(Join([i \in 1..Len(shape) |-> shape[i].text]))]

Txt(x) == [text |-> x]
Nm(x, f) == [name |-> x, form |-> f]

LabelChoices ==
    {NoChoice,
     Choice(<<Txt("City")>>),
     Choice(<<Nm("title", "bare")>>),
     Choice(<<Nm("CityLabel", "padded")>>),
     Choice(<<Nm("Zed", "filtered"), Txt("-"), Nm("Alpha", "bare"), Txt("-"), Nm("Zed", "bare")>>)}

FilterChoices ==
    {Choice(<<Txt("Flag = 1")>>),
     Choice(<<Txt("Flag = "), Nm("Flag", "bare")>>),
     Choice(<<Nm("FilterExpression", "padded")>>),
     Choice(<<Nm("Zed", "bare"), Txt(" && "), Nm("Alpha", "filtered"), Txt(" && "), Nm("Zed", "padded")>>)}

BaseParameterChoices ==
    {None,
     Map([k \in {"Flag"} |-> Str("DEFAULT")]),
     Map([k \in {"Flag", "title", "CityLabel"} |->
            CASE k = "Flag" -> Str("DEFAULT")
              [] k = "title" -> Str("ParamTitle")
              [] k = "CityLabel" -> IntV(5)]),
     Str("oops")}

WithKey(d, k, v) == [j \in DOMAIN d \cup {k} |-> IF j = k THEN v ELSE d[j]]

\* The base document of tests/test_yaml_loader.py:41-56
BaseDoc(title, label, filter, parameters) ==
    LET row == IF label = NoChoice
               THEN Map([k \in {"template"} |-> Tpl(<<Ph(<<"dim.City">>)>>)])
               ELSE Map([k \in {"template", "label"} |->
                        IF k = "template" THEN Tpl(<<Ph(<<"dim.City">>)>>) ELSE label.value])
        core == [k \in {"type", "rows", "values", "filters"} |->
                    CASE k = "type" -> Str("matrix")
                      [] k = "rows" -> List(<<row>>)
                      [] k = "values" -> List(<<Map([j \in {"id"} |-> Str("Total")])>>)
                      [] k = "filters" -> List(<<Map([j \in {"expression"} |-> filter.value])>>)]
        titled == IF IsNone(title) THEN core ELSE WithKey(core, "title", title)
    IN  IF IsNone(parameters) THEN titled ELSE WithKey(titled, "parameters", parameters)

\* The composing child of tests/test_yaml_loader.py:58-68, without `compose`
ChildDoc(title, parameters) ==
    LET titled == IF IsNone(title) THEN EmptyDict ELSE WithKey(EmptyDict, "title", title)
    IN  IF IsNone(parameters) THEN titled ELSE WithKey(titled, "parameters", parameters)

OverrideChoices ==
    {EmptyDict,
     [k \in {"title"} |-> Str("Runtime Title")],
     [k \in {"title"} |-> IntV(7)],
     [k \in {"parameters"} |-> Map([j \in {"Zed", "Flag"} |->
            IF j = "Zed" THEN Str("z") ELSE Str("OV")])]}

ParameterOverrideChoices ==
    {EmptyDict,
     [k \in {"Flag"} |-> Str("FALSE()")],
     [k \in {"title", "Alpha", "Zed"} |->
            CASE k = "title" -> Str("PO") [] k = "Alpha" -> BoolV(TRUE) [] k = "Zed" -> None],
     [k \in {"FilterExpression", "CityLabel"} |->
            IF k = "CityLabel" THEN Str("Downtown") ELSE Str("Flag = TRUE()")],
     [k \in {"dim.City", "title"} |-> IF k = "title" THEN Str("PO") ELSE Str("Sydney")]}

InitBind ==
    /\ bLabel \in LabelChoices
    /\ bFilter \in FilterChoices
    /\ \E title \in {None, Str("Base Title")}, parameters \in BaseParameterChoices :
            bBase = BaseDoc(title, bLabel, bFilter, parameters)
    /\ \E title \in {None, Str("Child Title")},
          parameters \in {None, Map([k \in {"Flag"} |-> Str("TRUE()")])} :
            bChild = ChildDoc(title, parameters)
    \* _load_composed_yaml of the child: the base merged into {}, then the
    \* child's own keys (yaml_loader.py:90-99)
    /\ bMerged = _merge_dicts(_merge_dicts(EmptyDict, bBase), bChild)
    /\ bOverrides \in OverrideChoices
    /\ bParams \in ParameterOverrideChoices
    /\ bDoc = EmptyDict
    /\ bData = bMerged
    /\ bContext = EmptyDict
    /\ bResult = Ok(EmptyDict)
    /\ bEntry \in {"load_matrix_config", "load_visual_config"}
    /\ bBound = Ok(EmptyDict)
    /\ bPc = "call"
    /\ MergeIdle /\ RenderIdle /\ ComposeIdle /\ PlanIdle /\ FrameIdle /\ ExecIdle /\ QueryIdle
    /\ ValidateIdle

\* The keyword parameters of the two loaders: load_matrix_config,
\* yaml_loader.py:146-152, and load_visual_config, yaml_loader.py:238
    /\ ReloadIdle
    /\ TokenIdle
Keywords(entry) ==
    IF entry = "load_matrix_config" THEN {"parameters_override", "overrides", "stack"} ELSE {}

\* The call `entry(path, overrides=..., parameters_override=...)` of
\* tests/test_yaml_loader.py:145-149: a keyword the function does not
\* declare raises TypeError before its body runs
BindCall ==
    /\ bPc = "call"
    /\ IF {"overrides", "parameters_override"} \subseteq Keywords(bEntry)
       THEN bPc' = "overrides" /\ UNCHANGED bResult
       ELSE bPc' = "failed" /\ bResult' = Err([kind |-> "TypeError"])
    /\ UNCHANGED <<bLabel, bFilter, bBase, bChild, bMerged, bOverrides, bParams, bDoc, bData,
                   bContext, bEntry, bBound, exceptBind>>

\* yaml_loader.py:158-159
BindApplyOverrides ==
    /\ bPc = "overrides"
    /\ bData' = IF bOverrides # EmptyDict THEN _merge_dicts(bData, bOverrides) ELSE bData
    /\ bDoc' = bData'
    /\ bPc' = "parameters"
    /\ UNCHANGED <<bLabel, bFilter, bBase, bChild, bMerged, bOverrides, bParams, bContext,
                   bResult, bEntry, bBound, exceptBind>>

\* yaml_loader.py:161-166
BindApplyParameterOverride ==
    /\ bPc = "parameters"
    /\ IF bParams = EmptyDict
       THEN bPc' = "finalize" /\ UNCHANGED <<bData, bResult>>
       ELSE LET existing == PoppedParameters(bData)
            IN  IF ~IsDict(existing)
                THEN /\ bResult' = Err([kind |-> "parameters"])
                     /\ bPc' = "failed"
                     /\ UNCHANGED bData
                ELSE /\ bData' = WithKey(bData, "parameters",
                                         Map(ShallowMerge(existing.m, bParams)))
                     /\ bPc' = "finalize"
                     /\ UNCHANGED bResult
    /\ UNCHANGED <<bLabel, bFilter, bBase, bChild, bMerged, bOverrides, bParams, bDoc,
                   bContext, bEntry, bBound, exceptBind>>

\* yaml_loader.py:168, 130-143
BindFinalize ==
    /\ bPc = "finalize"
    /\ bResult' = _finalize_matrix_config(bData)
    /\ bContext' = IF IsDict(PoppedParameters(bData))
                   THEN _build_context(Without(bData, {"parameters"}),
                                       PoppedParameters(bData).m)
                   ELSE bContext
    /\ bBound' = IF IsDict(PoppedParameters(bData))
                 THEN _apply_parameter_templates(Without(bData, {"parameters"}), bContext')
                 ELSE bBound
    /\ bPc' = IF IsOk(bResult') THEN "done" ELSE "failed"
    /\ UNCHANGED <<bLabel, bFilter, bBase, bChild, bMerged, bOverrides, bParams, bDoc,
                   bData, bEntry, exceptBind>>

NextBind == BindCall \/ BindApplyOverrides \/ BindApplyParameterOverride \/ BindFinalize

SpecBind == InitBind /\ [][NextBind]_vars

----------------------------------------------------------------------------
(* C8 *)

\* What a value reads as in the rendered text.
C8_Text(v) ==
    CASE v = Str("TRUE()") -> "TRUE()"
      [] v = IntV(42) -> "42"
      [] OTHER -> ""

C8_Chunk(item) ==
    IF DOMAIN item = {"text"} THEN item.text
    ELSE IF item.name \in DOMAIN rValues THEN C8_Text(rValues[item.name]) ELSE ""

C8_HasMissing == \E i \in 1..Len(rShape) :
    DOMAIN rShape[i] # {"text"} /\ rShape[i].name \notin DOMAIN rValues

----------------------------------------------------------------------------
(* The merge fold: an accumulator that starts empty and absorbs one mapping *)
(* after another, as the compose loop and the override merge do.           *)

MaxMerges == 2

MergeKeys == {"title", "parameters"}
MergeLeaves == {Str("x"), List(<<Str("y")>>)}
MergeInner == DictsOver(MergeKeys, MergeLeaves)
MergeDocs == DictsOver(MergeKeys, MergeLeaves \cup {Map(d) : d \in MergeInner})

InitMerge ==
    /\ MergeIdle
    /\ RenderIdle /\ BindIdle /\ ComposeIdle /\ PlanIdle /\ FrameIdle /\ ExecIdle /\ QueryIdle
    /\ ValidateIdle

\* base = _merge_dicts(base, <next mapping>)
    /\ ReloadIdle
    /\ TokenIdle
MergeStep ==
    /\ mCount < MaxMerges
    /\ \E update \in MergeDocs :
        /\ mBase' = mMerged
        /\ mUpdate' = update
        /\ mMerged' = _merge_dicts(mMerged, update)
    /\ mCount' = mCount + 1
    /\ UNCHANGED exceptMerge

NextMerge == MergeStep

SpecMerge == InitMerge /\ [][NextMerge]_vars

----------------------------------------------------------------------------
(* C4 *)

\* C4: _merge_dicts(base, update) is override-dominant. Every key of update
\* is in the result; a key whose value is a mapping in both base and update
\* holds the recursive merge of the two; any other key of update holds
\* update's value wholesale; a key only in base keeps base's value; the
\* result has no other key.
C4_MergeOverrideDominant ==
    /\ DOMAIN mMerged = DOMAIN mBase \cup DOMAIN mUpdate
    /\ \A k \in DOMAIN mUpdate :
        IF k \in DOMAIN mBase /\ IsDict(mBase[k]) /\ IsDict(mUpdate[k])
        THEN /\ IsDict(mMerged[k])
             /\ mMerged[k].m = _merge_dicts(mBase[k].m, mUpdate[k].m)
             \* one level down, spelled out: update's leaves win, base's
             \* other entries survive
             /\ \A j \in DOMAIN mUpdate[k].m :
                    j \in DOMAIN mMerged[k].m
                    /\ (~IsDict(mUpdate[k].m[j]) => mMerged[k].m[j] = mUpdate[k].m[j])
             /\ \A j \in DOMAIN mBase[k].m \ DOMAIN mUpdate[k].m :
                    j \in DOMAIN mMerged[k].m /\ mMerged[k].m[j] = mBase[k].m[j]
        ELSE mMerged[k] = mUpdate[k]
    /\ \A k \in DOMAIN mBase \ DOMAIN mUpdate : mMerged[k] = mBase[k]

\* A mapping met a mapping under the same key, each with an entry the other
\* lacks, and another key was replaced by a value of a different type.
C4_Witness ==
    /\ mCount > 0
    /\ \E k \in DOMAIN mBase \cap DOMAIN mUpdate :
        /\ IsDict(mBase[k]) /\ IsDict(mUpdate[k])
        /\ DOMAIN mBase[k].m \ DOMAIN mUpdate[k].m # {}
        /\ DOMAIN mUpdate[k].m \ DOMAIN mBase[k].m # {}
    /\ \E k \in DOMAIN mBase \cap DOMAIN mUpdate :
        IsDict(mBase[k]) /\ IsList(mUpdate[k]) /\ mMerged[k] = mUpdate[k]

----------------------------------------------------------------------------
(* C6, C7 *)

\* The text a value of the model has in the context.
C6_Text(v) ==
    CASE DOMAIN v = {"s"} -> v.s
      [] v = IntV(5) -> "5"
      [] v = IntV(7) -> "7"
      [] v = BoolV(TRUE) -> "True"
      [] v = None -> "None"

\* The `parameters` map of the merged document (structural overrides in)
C6_DocParameters ==
    IF "parameters" \in DOMAIN bDoc /\ IsDict(bDoc["parameters"])
    THEN bDoc["parameters"].m ELSE EmptyDict

C6_DocScalars == {k \in DOMAIN bDoc \ {"parameters"} : IsScalar(bDoc[k])}

C6_Names == DOMAIN bParams \cup DOMAIN C6_DocParameters \cup C6_DocScalars

\* The value of the highest-priority source that defines the name
C6_Expected(name) ==
    IF name \in DOMAIN bParams THEN C6_Text(bParams[name])
    ELSE IF name \in DOMAIN C6_DocParameters THEN C6_Text(C6_DocParameters[name])
    ELSE C6_Text(bDoc[name])

C6_Rendered(choice) ==
    LET chunk(item) == IF DOMAIN item = {"text"} THEN item.text ELSE C6_Expected(item.name)
    IN  Str(Join([i \in 1..Len(choice.shape) |-> chunk(choice.shape[i])]))

C6_ContextBuilt ==
    /\ bPc \in {"done", "failed"}
    /\ bResult \notin {Err([kind |-> "parameters"]), Err([kind |-> "TypeError"])}

\* C6: the context gives every name the value of the highest-priority
\* source defining it: parameter overrides, then the merged document's
\* `parameters`, then its top-level scalar keys; the row label and the
\* filter expression of the loaded visual are rendered with these values,
\* and a composing child's Flag replaces the base document's.
C6_ContextPriority ==
    /\ C6_ContextBuilt =>
        /\ DOMAIN bContext = C6_Names
        /\ \A name \in C6_Names : bContext[name] = Str(C6_Expected(name))
    /\ bPc = "done" =>
        /\ bResult.ok.rows[1].label =
                (IF bLabel = NoChoice THEN None ELSE C6_Rendered(bLabel))
        /\ bResult.ok.filters[1].expression = C6_Rendered(bFilter)
    /\ ( /\ bPc = "done"
         /\ "parameters" \in DOMAIN bBase /\ bBase["parameters"] # Str("oops")
         /\ bBase["parameters"].m["Flag"] = Str("DEFAULT")
         /\ "parameters" \in DOMAIN bChild
         /\ bChild["parameters"].m["Flag"] = Str("TRUE()")
         /\ "parameters" \notin DOMAIN bOverrides /\ "Flag" \notin DOMAIN bParams
         /\ bFilter = Choice(<<Txt("Flag = "), Nm("Flag", "bare")>>) )
        => bResult.ok.filters[1].expression = Str("Flag = TRUE()")

\* `title` is defined by all three sources and the label {{title}} shows
\* the parameter override's value.
C6_Witness ==
    /\ bPc = "done"
    /\ "title" \in DOMAIN bParams
    /\ "title" \in DOMAIN C6_DocParameters
    /\ "title" \in C6_DocScalars
    /\ bLabel = Choice(<<Nm("title", "bare")>>)
    /\ bResult.ok.rows[1].label = Str("PO")
    /\ bResult.ok.rows[1].label # Str(C6_Text(C6_DocParameters["title"]))
    /\ bResult.ok.rows[1].label # bDoc["title"]

\* The names of a label or filter expression that the context lacks
C7_Missing(choice) ==
    {choice.shape[i].name : i \in {j \in 1..Len(choice.shape) :
        DOMAIN choice.shape[j] # {"text"} /\ choice.shape[j].name \notin C6_Names}}

\* The missing names of the model in sorted order, each once
C7_Listed(S) ==
    CASE S = {} -> <<>>
      [] S = {"Alpha", "Zed"} -> <<"Alpha", "Zed">>
      [] OTHER -> <<CHOOSE x \in S : TRUE>>

C7_Unresolved(location, names) ==
    Err([kind |-> "unresolved", location |-> location, names |-> C7_Listed(names)])

\* C7: when the row label or the filter expression holds placeholders
\* whose base expression the context lacks, loading fails with an
\* unresolved-parameter error for the first such field (row labels come
\* before filter expressions) that lists each missing name of the field
\* once, sorted, with the field's location; no visual is returned.  With
\* no name missing there is no such error.
C7_UnresolvedParameters ==
    C6_ContextBuilt =>
        IF C7_Missing(bLabel) # {}
        THEN bPc = "failed" /\ bResult = C7_Unresolved("row label", C7_Missing(bLabel))
        ELSE IF C7_Missing(bFilter) # {}
        THEN bPc = "failed"
             /\ bResult = C7_Unresolved("filter expression", C7_Missing(bFilter))
        ELSE IsErr(bResult) => bResult.err.kind # "unresolved"

\* A label naming Zed twice (once with a filter suffix) and Alpha once
\* failed with the two names listed once each, Alpha first.
C7_Witness ==
    /\ bPc = "failed"
    /\ Len(bLabel.shape) = 5
    /\ bResult = Err([kind |-> "unresolved", location |-> "row label",
                      names |-> <<"Alpha", "Zed">>])

----------------------------------------------------------------------------
(* yaml_loader.py: compose resolution and the visual loader.  Every call   *)
(* of _load_composed_yaml is an entry of cStack; cCalls keeps each call's  *)
(* path and ancestry, and its return value once it has returned.           *)

\* Deepest call stack explored
MaxDepth == 6

ComposePaths == {"/v/a.yaml", "/v/b.yaml", "/v/c.yaml"}
NumDocs == Cardinality(ComposePaths)

\* (path.parent / entry).resolve(), yaml_loader.py:95 and 206: every document
\* lives in the directory /v, and "./" names that directory
RefTarget ==
    [ref \in {"a.yaml", "b.yaml", "./b.yaml", "c.yaml", "missing.yaml"} |->
        CASE ref = "a.yaml" -> "/v/a.yaml"
          [] ref = "b.yaml" -> "/v/b.yaml"
          [] ref = "./b.yaml" -> "/v/b.yaml"
          [] ref = "c.yaml" -> "/v/c.yaml"
          [] ref = "missing.yaml" -> "/v/missing.yaml"]

ResolveRef(path, ref) == RefTarget[ref]

\* yaml_loader.py:62 `path in stack`
InAncestryParentOnly(path, stack) == stack # <<>> /\ stack[Len(stack)] = path
InAncestry(path, stack) == \E i \in 1..Len(stack) : stack[i] = path

\* yaml_loader.py:63, the chain of the error; the code joins it with " -> "
CycleChainAncestryOnly(stack, path) == stack
CycleChain(stack, path) == stack \o <<path>>

\* yaml_loader.py:74-81: an empty document reads as {}, any other root
\* must be a mapping
DocumentRoot(content) ==
    IF Falsy(content) THEN Ok(EmptyDict)
    ELSE IF ~IsDict(content) THEN Err([kind |-> "root"])
    ELSE Ok(content.m)

\* yaml_loader.py:83-88
NormalizeCompose(data) ==
    LET compose == IF "compose" \notin DOMAIN data \/ Falsy(data["compose"])
                   THEN List(<<>>) ELSE data["compose"]
    IN  IF IsStr(compose) THEN Ok(<<compose>>)
        ELSE IF ~IsList(compose) THEN Err([kind |-> "compose_type"])
        ELSE Ok(compose.l)

\* yaml_loader.py:96, the stack handed to the parent's load
ParentStack(stack, path) == stack \o <<path>>

\* yaml_loader.py:96, the loop's accumulator
AbsorbFirstWins(base, loaded) == _merge_dicts(loaded, base)
Absorb(base, loaded) == _merge_dicts(base, loaded)

\* yaml_loader.py:98-99
ComposeResult(base, data) == _merge_dicts(base, Without(data, {"compose"}))

NewCall(path, stack, call) ==
    [path |-> path, stack |-> stack, call |-> call, pc |-> "enter",
     data |-> EmptyDict, entries |-> <<>>, idx |-> 0, base |-> EmptyDict]

CallRecord(path, stack, phase) ==
    [path |-> path, stack |-> stack, phase |-> phase, returned |-> <<>>]

\* load_matrix_config between its compose resolution and the call of
\* _finalize_matrix_config, yaml_loader.py:158-166
LoadMatrixMerged(merged, parameters_override, overrides) ==
    LET overridden == IF overrides # EmptyDict THEN _merge_dicts(merged, overrides)
                      ELSE merged
        existing == PoppedParameters(overridden)
    IN  IF parameters_override = EmptyDict THEN Ok(overridden)
        ELSE IF ~IsDict(existing) THEN Err([kind |-> "parameters"])
        ELSE Ok(WithKey(overridden, "parameters",
                        Map(ShallowMerge(existing.m, parameters_override))))

\* str.lower() on the layouts and provider keys in use
Lower(x) ==
    CASE x = "Horizontal" -> "horizontal"
      [] x = "Mock" -> "mock"
      [] x = "PowerBI" -> "powerbi"
      [] x = "Percent of column total" -> "percent of column total"
      [] x = "Percent Of Row Total" -> "percent of row total"
      [] OTHER -> x

\* yaml_loader.py:172-193
FrameSettings(data) ==
    LET children == Get(data, "children")
        layout == IF "layout" \in DOMAIN data THEN Lower(PyStr(data["layout"]))
                  ELSE "vertical"
        raw_auto_height == IF IsNone(Get(data, "autoHeight")) THEN Get(data, "auto_height")
                           ELSE Get(data, "autoHeight")
    IN  IF ~IsList(children) \/ children = List(<<>>) THEN Err([kind |-> "children"])
        ELSE IF layout \notin {"vertical", "horizontal"} THEN Err([kind |-> "layout"])
        ELSE IF ~IsNone(raw_auto_height) /\ DOMAIN raw_auto_height # {"b"}
             THEN Err([kind |-> "autoHeight"])
        ELSE Ok([layout |-> layout,
                 auto_height |-> IF IsNone(raw_auto_height) THEN TRUE ELSE raw_auto_height.b,
                 show_titles |-> ~Falsy(Get(data, "show_titles")),
                 children |-> children.l])

\* yaml_loader.py:197-212: one entry of `children`
ChildRequest(entry, index) ==
    IF ~IsDict(entry) THEN Err([kind |-> "child_mapping", index |-> index])
    ELSE LET ref == Get(entry.m, "ref")
             parameters == IF Falsy(Get(entry.m, "parameters")) THEN Map(EmptyDict)
                           ELSE entry.m["parameters"]
         IN  IF DOMAIN ref # {"s"} \/ StripStr(ref.s) = ""
             THEN Err([kind |-> "child_ref", index |-> index])
             ELSE IF ~IsDict(parameters) THEN Err([kind |-> "child_parameters"])
             ELSE Ok([ref |-> ref.s,
                      parameters |-> parameters.m,
                      overrides |-> Without(entry.m, {"ref", "parameters"})])

\* yaml_loader.py:250, the stack load_visual_config hands to _load_frame_config
FrameStack(resolved) == <<resolved>>

\* yaml_loader.py:218, the stack handed to a child's load
ChildStackFresh(stack, path) == <<>>
ChildStack(stack, path) == stack \o <<path>>

\* FrameChildConfig(**fields), frame.py:58-69: source, visual and parameters
\* are required and no other field but overrides is accepted
FrameChildConfig(fields) ==
    IF {"source", "visual", "parameters"} \subseteq DOMAIN fields
       /\ DOMAIN fields \subseteq {"source", "visual", "parameters", "overrides"}
    THEN Ok(fields)
    ELSE Err([kind |-> "frame_child_model"])

\* yaml_loader.py:220-226: the keywords the loader passes
ResolvedChild(child_path, child_config, parameters) ==
    FrameChildConfig(
        [k \in {"source", "config", "parameters"} |->
            CASE k = "source" -> Str(child_path)
              [] k = "config" -> child_config
              [] k = "parameters" -> [j \in DOMAIN parameters |-> Str(PyStr(parameters[j]))]])

\* yaml_loader.py:228-235
FrameModel(data, settings, children) ==
    IF OptStrOk(data, "title")
    THEN Ok([kind |-> "frame", title |-> Get(data, "title"), layout |-> settings.layout,
             auto_height |-> settings.auto_height, show_titles |-> settings.show_titles,
             children |-> children])
    ELSE Err([kind |-> "frame_model"])

\* The documents: a.yaml is a partial matrix or a frame, b.yaml a whole
\* matrix, c.yaml a partial matrix, an empty file or a list
ComposeRefs == {"a.yaml", "b.yaml", "c.yaml"}

ComposeValues ==
    {None, Str("./b.yaml"), IntV(3), List(<<IntV(1)>>), List(<<Str("missing.yaml")>>)}
    \cup {List(<<Str(r)>>) : r \in ComposeRefs}
    \cup {List(<<Str("b.yaml"), Str("c.yaml")>>), List(<<Str("c.yaml"), Str("b.yaml")>>),
          List(<<Str("c.yaml"), Str("a.yaml")>>), List(<<Str("c.yaml"), Str("c.yaml")>>)}

Composing(doc, compose) ==
    IF IsNone(compose) THEN Map(doc) ELSE Map(WithKey(doc, "compose", compose))

ADoc == WithKey(ChildDoc(Str("A Title"), None), "define", Str("a"))

BDoc ==
    BaseDoc(Str("B Title"), Choice(<<Nm("title", "bare")>>),
            Choice(<<Txt("Flag = "), Nm("Flag", "bare")>>),
            Map([k \in {"Flag"} |-> Str("DEFAULT")]))

CDoc ==
    WithKey(ChildDoc(None, Map([k \in {"Flag", "Zed"} |-> Str("TRUE()")])),
            "define", Str("c"))

\* A whole matrix written without `type`, and a visual of another type
LegacyDoc == Without(BDoc, {"type"})

ChartDoc == WithKey(BDoc, "type", Str("chart"))

ChildEntry(ref) ==
    Map([k \in {"ref", "parameters", "title"} |->
            CASE k = "ref" -> Str(ref)
              [] k = "parameters" -> Map([j \in {"Flag"} |-> IntV(1)])
              [] k = "title" -> Str("Child Title")])

ChildrenValues ==
    {None, List(<<>>), List(<<Str("b.yaml")>>),
     List(<<Map([k \in {"title"} |-> Str("No Ref")])>>),
     List(<<Map([k \in {"ref"} |-> Str(" ")])>>),
     List(<<Map([k \in {"ref", "parameters"} |->
                IF k = "ref" THEN Str("b.yaml") ELSE Str("oops")])>>),
     List(<<ChildEntry("missing.yaml")>>)}
    \cup {List(<<ChildEntry(r)>>) : r \in ComposeRefs}
    \cup {List(<<ChildEntry("b.yaml"), ChildEntry("c.yaml")>>),
          List(<<ChildEntry("c.yaml"), ChildEntry("b.yaml")>>),
          List(<<ChildEntry("b.yaml"), ChildEntry("a.yaml")>>)}

FrameDoc(children, extra) ==
    LET core == [k \in {"type", "title"} |->
                    IF k = "type" THEN Str("frame") ELSE Str("Frame Title")]
        listed == IF IsNone(children) THEN core ELSE WithKey(core, "children", children)
    IN  [k \in DOMAIN listed \cup DOMAIN extra |->
            IF k \in DOMAIN extra THEN extra[k] ELSE listed[k]]

FrameDocs ==
    {FrameDoc(children, EmptyDict) : children \in ChildrenValues}
    \cup {FrameDoc(List(<<ChildEntry("b.yaml")>>), extra) : extra \in
            {[k \in {"layout"} |-> Str("Horizontal")],
             [k \in {"layout"} |-> Str("diagonal")],
             [k \in {"autoHeight"} |-> Str("yes")],
             [k \in {"auto_height", "show_titles"} |-> BoolV(k = "show_titles")]}}

\* The files under /v: a.yaml a matrix or a frame, b.yaml a matrix, c.yaml a
\* matrix (partial, or whole without `type`), a visual of another type, an
\* empty file or a file whose root is a list
InitCompose ==
    /\ \E a \in {Composing(ADoc, compose) : compose \in ComposeValues}
                \cup {Composing(doc, None) : doc \in FrameDocs}
                \cup {Composing(FrameDoc(List(<<ChildEntry("b.yaml")>>), EmptyDict),
                                List(<<Str(r)>>)) : r \in {"a.yaml", "c.yaml"}},
          b \in {Composing(BDoc, compose) : compose \in ComposeValues},
          c \in {Composing(CDoc, compose) : compose \in ComposeValues}
                \cup {None, List(<<Str("rows")>>), Map(LegacyDoc), Map(ChartDoc)} :
            cFiles = [p \in ComposePaths |->
                        CASE p = "/v/a.yaml" -> a
                          [] p = "/v/b.yaml" -> b
                          [] p = "/v/c.yaml" -> c]
    /\ cRoot \in ComposePaths
    \* load_visual_config calls _load_composed_yaml(resolved), yaml_loader.py:242
    /\ cStack = <<NewCall(cRoot, <<>>, 1)>>
    /\ cCalls = <<CallRecord(cRoot, <<>>, "root")>>
    /\ cRet = EmptyDict
    /\ cData = EmptyDict
    /\ cPhase = "root"
    /\ cChild = 0
    /\ cChildren = <<>>
    /\ cVisual = Ok(EmptyDict)
    /\ cResult = NoError
    /\ cErr = NoError
    /\ MergeIdle /\ RenderIdle /\ BindIdle /\ PlanIdle /\ FrameIdle /\ ExecIdle /\ QueryIdle
    /\ ValidateIdle
    /\ ReloadIdle
    /\ TokenIdle

ComposeTop == cStack[Len(cStack)]

ComposeFail(error) ==
    /\ cErr' = error
    /\ cPhase' = "failed"

\* yaml_loader.py:62-90: the cycle check, the read, the root and the
\* `compose` value
ComposeEnter ==
    /\ cPhase \in {"root", "child"}
    /\ cStack # <<>>
    /\ ComposeTop.pc = "enter"
    /\ LET top == ComposeTop
           root == DocumentRoot(cFiles[top.path])
           entries == NormalizeCompose(root.ok)
       IN  IF InAncestry(top.path, top.stack)
           THEN /\ ComposeFail([kind |-> "cycle", chain |-> CycleChain(top.stack, top.path)])
                /\ UNCHANGED cStack
           ELSE IF top.path \notin DOMAIN cFiles
           THEN /\ ComposeFail([kind |-> "read", path |-> top.path])
                /\ UNCHANGED cStack
           ELSE IF IsErr(root)
           THEN ComposeFail(root.err) /\ UNCHANGED cStack
           ELSE IF IsErr(entries)
           THEN ComposeFail(entries.err) /\ UNCHANGED cStack
           ELSE /\ cStack' = [cStack EXCEPT ![Len(cStack)] =
                                [top EXCEPT !.pc = "loop", !.data = root.ok,
                                            !.entries = entries.ok, !.idx = 1]]
                /\ UNCHANGED <<cErr, cPhase>>
    /\ UNCHANGED <<cFiles, cRoot, cCalls, cRet, cData, cChild, cChildren, cResult,
                   cVisual, exceptCompose>>

\* yaml_loader.py:91-96: the next entry of `compose` and the recursive call
ComposeCall ==
    /\ cPhase \in {"root", "child"}
    /\ cStack # <<>>
    /\ Len(cStack) < MaxDepth
    /\ ComposeTop.pc = "loop"
    /\ ComposeTop.idx <= Len(ComposeTop.entries)
    /\ LET top == ComposeTop
           entry == top.entries[top.idx]
           parent_path == ResolveRef(top.path, entry.s)
           stack == ParentStack(top.stack, top.path)
       IN  IF DOMAIN entry # {"s"}
           THEN /\ ComposeFail([kind |-> "compose_entry"])
                /\ UNCHANGED <<cStack, cCalls>>
           ELSE /\ cStack' = Append(cStack, NewCall(parent_path, stack, Len(cCalls) + 1))
                /\ cCalls' = Append(cCalls, CallRecord(parent_path, stack, cPhase))
                /\ UNCHANGED <<cErr, cPhase>>
    /\ UNCHANGED <<cFiles, cRoot, cRet, cData, cChild, cChildren, cResult, cVisual,
                   exceptCompose>>

\* yaml_loader.py:98-99 and, in the caller, the merge of line 96
ComposeReturn ==
    /\ cPhase \in {"root", "child"}
    /\ cStack # <<>>
    /\ ComposeTop.pc = "loop"
    /\ ComposeTop.idx > Len(ComposeTop.entries)
    /\ LET top == ComposeTop
           result == ComposeResult(top.base, top.data)
           depth == Len(cStack)
       IN  /\ cCalls' = [cCalls EXCEPT ![top.call].returned = <<result>>]
           /\ IF depth > 1
              THEN /\ cStack' = [i \in 1..(depth - 1) |->
                                    IF i < depth - 1 THEN cStack[i]
                                    ELSE [cStack[i] EXCEPT
                                            !.base = Absorb(cStack[i].base, result),
                                            !.idx = cStack[i].idx + 1]]
                   /\ UNCHANGED <<cRet, cPhase>>
              ELSE /\ cStack' = <<>>
                   /\ cRet' = result
                   /\ cPhase' = IF cPhase = "root" THEN "dispatch" ELSE "child_loaded"
    /\ UNCHANGED <<cFiles, cRoot, cData, cChild, cChildren, cResult, cErr, cVisual, exceptCompose>>

\* load_visual_config, yaml_loader.py:244-253, and the head of
\* _load_frame_config, yaml_loader.py:172-195
Dispatch ==
    /\ cPhase = "dispatch"
    /\ LET visual_type == Get(cRet, "type")
           settings == FrameSettings(cRet)
       IN  IF visual_type = Str("matrix") \/ IsNone(visual_type)
           THEN /\ cPhase' = "finalize"
                /\ UNCHANGED <<cErr, cData, cChild>>
           ELSE IF visual_type = Str("frame")
           THEN IF IsOk(settings)
                THEN /\ cData' = cRet
                     /\ cPhase' = "children"
                     /\ cChild' = 1
                     /\ UNCHANGED cErr
                ELSE ComposeFail(settings.err) /\ UNCHANGED <<cData, cChild>>
           ELSE /\ ComposeFail([kind |-> "unsupported"])
                /\ UNCHANGED <<cData, cChild>>
    /\ UNCHANGED <<cFiles, cRoot, cStack, cCalls, cRet, cChildren, cResult, cVisual,
                   exceptCompose>>

\* _load_frame_config, yaml_loader.py:196-219: the next child, up to the
\* call of _load_composed_yaml inside load_matrix_config (line 156)
ChildStart ==
    /\ cPhase = "children"
    /\ LET children == FrameSettings(cData).ok.children
           request == ChildRequest(children[cChild], cChild)
           child_path == ResolveRef(cRoot, request.ok.ref)
           stack == ChildStack(FrameStack(cRoot), cRoot)
       IN  IF IsErr(request)
           THEN /\ ComposeFail(request.err)
                /\ UNCHANGED <<cStack, cCalls>>
           ELSE /\ cStack' = <<NewCall(child_path, stack, Len(cCalls) + 1)>>
                /\ cCalls' = Append(cCalls, CallRecord(child_path, stack, "child"))
                /\ cPhase' = "child"
                /\ UNCHANGED cErr
    /\ UNCHANGED <<cFiles, cRoot, cRet, cData, cChild, cChildren, cResult, cVisual,
                   exceptCompose>>

\* load_matrix_config for the child, yaml_loader.py:158-166: `merged` takes
\* the entry's overrides and parameters
ChildLoaded ==
    /\ cPhase = "child_loaded"
    /\ LET request == ChildRequest(FrameSettings(cData).ok.children[cChild], cChild).ok
           merged == LoadMatrixMerged(cRet, request.parameters, request.overrides)
       IN  IF IsErr(merged)
           THEN ComposeFail(merged.err) /\ UNCHANGED cRet
           ELSE /\ cRet' = merged.ok
                /\ cPhase' = "finalize"
                /\ UNCHANGED cErr
    /\ UNCHANGED <<cFiles, cRoot, cStack, cCalls, cData, cChild, cChildren, cResult,
                   cVisual, exceptCompose>>

\* _finalize_matrix_config (yaml_loader.py:130-143) and what its caller
\* does with the visual: load_visual_config returns it (line 247),
\* _load_frame_config wraps it as a child and goes on (lines 220-235)
Finalize ==
    /\ cPhase = "finalize"
    /\ cVisual' = _finalize_matrix_config(cRet)
    /\ LET visual == cVisual'
           settings == FrameSettings(cData).ok
           request == ChildRequest(settings.children[cChild], cChild).ok
           resolved == ResolvedChild(ResolveRef(cRoot, request.ref), visual.ok,
                                     request.parameters)
           frame == FrameModel(cData, settings, Append(cChildren, resolved.ok))
       IN  IF IsErr(visual)
           THEN ComposeFail(visual.err) /\ UNCHANGED <<cChild, cChildren, cResult>>
           ELSE IF cChild = 0
           THEN /\ cResult' = [kind |-> "matrix", visual |-> visual.ok]
                /\ cPhase' = "done"
                /\ UNCHANGED <<cErr, cChild, cChildren>>
           ELSE IF IsErr(resolved)
           THEN ComposeFail(resolved.err) /\ UNCHANGED <<cChild, cChildren, cResult>>
           ELSE IF cChild < Len(settings.children)
           THEN /\ cChildren' = Append(cChildren, resolved.ok)
                /\ cChild' = cChild + 1
                /\ cPhase' = "children"
                /\ UNCHANGED <<cErr, cResult>>
           ELSE IF IsErr(frame)
           THEN ComposeFail(frame.err) /\ UNCHANGED <<cChild, cChildren, cResult>>
           ELSE /\ cChildren' = Append(cChildren, resolved.ok)
                /\ cResult' = frame.ok
                /\ cPhase' = "done"
                /\ UNCHANGED <<cErr, cChild>>
    /\ UNCHANGED <<cFiles, cRoot, cStack, cCalls, cRet, cData, exceptCompose>>

NextCompose ==
    \/ ComposeEnter
    \/ ComposeCall
    \/ ComposeReturn
    \/ Dispatch
    \/ ChildStart
    \/ ChildLoaded
    \/ Finalize

SpecCompose == InitCompose /\ [][NextCompose]_vars

\* A call of _load_composed_yaml that can take its next step takes it
ComposeStep == ComposeEnter \/ ComposeCall \/ ComposeReturn

SpecComposeFair == SpecCompose /\ WF_vars(ComposeStep)

----------------------------------------------------------------------------
(* C1, C2, C3 *)

C1_Revisits(call) == call.path \in {call.stack[j] : j \in 1..Len(call.stack)}

C1_CycleError(call) == [kind |-> "cycle", chain |-> call.stack \o <<call.path>>]

\* A call whose path is in its ancestry is the last call made: it reads and
\* returns nothing, and once it has made its check the load has failed with
\* the cycle error naming its chain
C1_Stopped(i) ==
    /\ i = Len(cCalls)
    /\ cCalls[i].returned = <<>>
    /\ cStack # <<>>
    /\ cStack[Len(cStack)].call = i
    /\ cStack[Len(cStack)].pc = "enter"
    /\ cPhase \in {"root", "child", "failed"}
    /\ cPhase = "failed" => cErr = C1_CycleError(cCalls[i])

\* C1: _load_composed_yaml fails with the circular-composition error exactly
\* when the path it is called with is in its ancestry stack, the error names
\* the ancestry in order followed by the revisited path, and a document
\* reached twice through different branches is not reported as a cycle.
C1_CycleExactlyOnRevisit ==
    /\ \A i \in 1..Len(cCalls) : C1_Revisits(cCalls[i]) => C1_Stopped(i)
    /\ cErr.kind = "cycle" =>
            /\ cCalls # <<>>
            /\ C1_Revisits(cCalls[Len(cCalls)])
            /\ cErr.chain = cCalls[Len(cCalls)].stack \o <<cCalls[Len(cCalls)].path>>

\* A compose cycle through two other documents, found from the root
C1_Witness ==
    /\ cPhase = "failed"
    /\ cErr.kind = "cycle"
    /\ cCalls[Len(cCalls)].phase = "root"
    /\ Len(cErr.chain) = 4
    /\ cErr.chain[1] = cErr.chain[4]
    /\ cErr.chain[2] # cErr.chain[3]

\* A diamond: one document loaded to the end twice, on two branches of a
\* load that succeeds
C1_Diamond ==
    /\ cPhase = "done"
    /\ \E i, j \in 1..Len(cCalls) :
            /\ i < j
            /\ cCalls[i].path = cCalls[j].path
            /\ cCalls[i].stack # cCalls[j].stack
            /\ cCalls[i].returned # <<>>
            /\ cCalls[j].returned # <<>>

C2_Resolving == cPhase \in {"root", "child"}

C2_Resolved == cPhase \in {"dispatch", "child_loaded", "failed"}

\* C2: whatever the compose references of the documents are, a resolution
\* ends with a merged mapping or with an error, and never has more calls of
\* _load_composed_yaml in progress than there are documents, plus one.
C2_Terminates ==
    /\ [](Len(cStack) <= NumDocs + 1)
    /\ (C2_Resolving ~> C2_Resolved)

\* The deepest resolution: every document is an ancestor of the failing call
C2_Witness ==
    /\ cPhase = "failed"
    /\ cErr.kind = "cycle"
    /\ Len(cStack) = NumDocs + 1

----------------------------------------------------------------------------
(* C5 *)

\* A document's own keys
C5_Own(path) ==
    LET content == cFiles[path]
    IN  IF DOMAIN content = {"m"}
        THEN [k \in DOMAIN content.m \ {"compose"} |-> content.m[k]]
        ELSE EmptyDict

\* The paths a document composes, as declared
C5_Declared(path) ==
    LET content == cFiles[path]
        compose == IF DOMAIN content = {"m"} /\ "compose" \in DOMAIN content.m
                   THEN content.m["compose"] ELSE List(<<>>)
    IN  IF DOMAIN compose = {"s"} THEN <<RefTarget[compose.s]>>
        ELSE [n \in 1..Len(compose.l) |-> RefTarget[compose.l[n].s]]

RECURSIVE C5_Resolved(_)
RECURSIVE C5_Parents(_, _)
\* The deep merge of the first n resolved entries, in declared order
C5_Parents(paths, n) ==
    IF n = 0 THEN EmptyDict
    ELSE _merge_dicts(C5_Parents(paths, n - 1), C5_Resolved(paths[n]))

\* The merge of the resolved entries, then the document's own keys
C5_Resolved(path) ==
    _merge_dicts(C5_Parents(C5_Declared(path), Len(C5_Declared(path))), C5_Own(path))

\* The entries of a document whose resolved mapping defines key k
C5_Defining(path, k) ==
    {n \in 1..Len(C5_Declared(path)) : k \in DOMAIN C5_Resolved(C5_Declared(path)[n])}

C5_Last(S) == CHOOSE n \in S : \A m \in S : m <= n

C5_ReturnOk(path, result) ==
    /\ result = C5_Resolved(path)
    /\ "compose" \notin DOMAIN result
    /\ \A k \in DOMAIN result :
            IF k \in DOMAIN C5_Own(path)
            THEN ~IsDict(C5_Own(path)[k]) => result[k] = C5_Own(path)[k]
            ELSE /\ C5_Defining(path, k) # {}
                 /\ LET last == C5_Resolved(C5_Declared(path)[C5_Last(C5_Defining(path, k))])
                    IN  ~IsDict(last[k]) => result[k] = last[k]

\* C5: what _load_composed_yaml returns for a document is the deep merge of
\* its resolved compose entries in declared order, then the document's own
\* keys: a key whose winning value is not a mapping has the document's own
\* value, or else the value of the last declared entry that defines it; and
\* no mapping returned or accumulated along the chain has a `compose` key.
C5_ComposeOrder ==
    /\ \A i \in 1..Len(cCalls) :
            cCalls[i].returned # <<>> => C5_ReturnOk(cCalls[i].path, cCalls[i].returned[1])
    /\ \A d \in 1..Len(cStack) : "compose" \notin DOMAIN cStack[d].base
    /\ "compose" \notin DOMAIN cRet

\* A document with two entries that both define a key it does not define
\* itself, with different values
C5_Witness ==
    \E i \in 1..Len(cCalls) :
        /\ cCalls[i].returned # <<>>
        /\ Len(C5_Declared(cCalls[i].path)) = 2
        /\ \E k \in DOMAIN cCalls[i].returned[1] \ DOMAIN C5_Own(cCalls[i].path) :
                /\ C5_Defining(cCalls[i].path, k) = {1, 2}
                /\ ~IsDict(cCalls[i].returned[1][k])
                /\ C5_Resolved(C5_Declared(cCalls[i].path)[1])[k]
                        # C5_Resolved(C5_Declared(cCalls[i].path)[2])[k]

----------------------------------------------------------------------------
(* pipeline/providers/matrix/planners/dax.py: DaxBackedMatrixPlanner.plan  *)

\* getattr(obj, name) on a model instance: a name that is no field raises
GetAttr(obj, name) ==
    IF name \in DOMAIN obj THEN Ok(obj[name])
    ELSE Err([kind |-> "AttributeError", name |-> name])

\* A validated MatrixConfig (models/matrix.py:178-213): its fields
PlanConfig ==
    [type |-> Str("matrix"), title |-> Str("Sales"), description |-> None, define |-> None,
     rows |-> <<"dim.City">>, values |-> <<"Total">>, totals |-> Str("off"),
     filters |-> <<>>, auto_height |-> BoolV(TRUE)]

\* str.strip().lower(), dax.py:69 and 74
StripLower(x) == Lower(StripStr(x))

\* dax.py:65-77
_resolve_provider_key(case_key, data_options) ==
    LET overrides == data_options["provider_case_overrides"]
        provider_key == data_options["provider_key"]
    IN  IF ~Falsy(case_key) /\ case_key.s \in DOMAIN overrides
           /\ StripLower(overrides[case_key.s]) # ""
        THEN Str(StripLower(overrides[case_key.s]))
        ELSE IF ~Falsy(provider_key) /\ StripLower(provider_key.s) # ""
        THEN Str(StripLower(provider_key.s))
        ELSE None

\* The datasource resolver handed to the planner (dax.py:30-39) over the
\* references in use: resolve_datasource (datasources.py:238-293) for "mock",
\* for a definition that is found and for one that is not, and a resolver
\* that returns a definition without dataset id
Datasources ==
    [reference \in {"mock", "analytics", "bare", "absent"} |->
        CASE reference = "mock" ->
                Ok([name |-> "mock", type |-> "mock", dataset_id |-> None,
                    workspace_id |-> None, settings |-> None])
          [] reference = "analytics" ->
                Ok([name |-> "analytics", type |-> "powerbi", dataset_id |-> Str("ds-a"),
                    workspace_id |-> Str("ws-a"), settings |-> Str("settings-a")])
          [] reference = "bare" ->
                Ok([name |-> "bare", type |-> "powerbi", dataset_id |-> None,
                    workspace_id |-> None, settings |-> Str("settings-b")])
          [] reference = "absent" -> Err([kind |-> "DataSourceConfigError", at |-> "resolve"])]

\* dax.py:131-149 when every returned value is taken for a dataset
ResolveAnyResult(returned, call) == Ok([from |-> "client", call |-> call])

\* dax.py:131-149 on what the client returned: a dataset, an awaitable of
\* one, an awaitable met while an event loop runs, an awaitable of something
\* else, and something that is neither
_resolve_result(returned, call) ==
    CASE returned = "result" -> Ok([from |-> "client", call |-> call])
      [] returned = "awaitable" -> Ok([from |-> "client", call |-> call])
      [] returned = "awaitable_in_loop" -> Err([kind |-> "RuntimeError"])
      [] returned = "awaitable_other" -> Err([kind |-> "TypeError"])
      [] returned = "other" -> Err([kind |-> "TypeError"])

\* mock_matrix_data(config, row_fields), dax.py:31
MockDataset == [from |-> "mock"]

\* dax.py:104: `datasource_override or config.datasource`
DatasourceReference(data_options, config) ==
    IF ~Falsy(data_options["datasource_override"])
    THEN Ok(data_options["datasource_override"])
    ELSE GetAttr(config, "datasource")

PlanOptions ==
    {[k \in {"datasource_override", "dataset_id", "workspace_id", "provider_key",
             "provider_case_overrides"} |->
        CASE k = "datasource_override" -> reference
          [] k = "dataset_id" -> dataset
          [] k = "workspace_id" -> workspace
          [] k = "provider_key" -> provider
          [] k = "provider_case_overrides" -> overrides] :
        reference \in {None, Str("mock"), Str("analytics"), Str("bare"), Str("absent")},
        dataset \in {None, Str(""), Str("ds-1")},
        workspace \in {None, Str("ws-1")},
        provider \in {None, Str(" "), Str(" Mock "), Str("PowerBI")},
        overrides \in {EmptyDict,
                       [c \in {"case1"} |-> "Mock"],
                       [c \in {"case1"} |-> " "],
                       [c \in {"case1"} |-> "PowerBI"],
                       [c \in {"case2"} |-> "Mock"]}}

\* What execute_matrix of the client does when invoked: it returns one of
\* the values _resolve_result tells apart, or raises
ClientOutcomes ==
    {"result", "awaitable", "awaitable_in_loop", "awaitable_other", "other", "raises"}

InitPlan ==
    /\ pOptions \in PlanOptions
    /\ pCaseKey \in {None, Str("case1")}
    /\ pConfigPath \in {None, Str("/v/b.yaml")}
    /\ pClient \in ClientOutcomes
    /\ pKey = None
    /\ pPc = "start"
    /\ pDataset = NoError
    /\ pErr = NoError
    /\ pClientCalls = <<>>
    /\ pResolverCalls = <<>>
    /\ pMockCalls = 0
    /\ MergeIdle /\ RenderIdle /\ BindIdle /\ ComposeIdle /\ FrameIdle /\ ExecIdle /\ QueryIdle
    /\ ValidateIdle
    /\ ReloadIdle
    /\ TokenIdle

PlanFail(error) ==
    /\ pErr' = error
    /\ pPc' = "failed"

\* self._dax_client.execute_matrix(...) followed by _resolve_result
\* (dax.py:87-94 and 120-129); an exception of the client leaves plan
PlanExecute(call) ==
    /\ pClientCalls' = Append(pClientCalls, call)
    /\ IF pClient = "raises"
       THEN PlanFail([kind |-> "ClientError"]) /\ UNCHANGED pDataset
       ELSE LET resolved == _resolve_result(pClient, call)
            IN  IF IsOk(resolved)
                THEN pDataset' = resolved.ok /\ pPc' = "done" /\ UNCHANGED pErr
                ELSE PlanFail(resolved.err) /\ UNCHANGED pDataset

\* dax.py:43-49: the query plan and the provider key
PlanStart ==
    /\ pPc = "start"
    /\ pKey' = _resolve_provider_key(pCaseKey, pOptions)
    /\ pPc' = "route"
    /\ UNCHANGED <<pOptions, pCaseKey, pConfigPath, pClient, pDataset, pErr, pClientCalls,
                   pResolverCalls, pMockCalls, exceptPlan>>

\* dax.py:51-53 and _execute_with_override, dax.py:79-94
PlanWithOverride ==
    /\ pPc = "route"
    /\ ~Falsy(pOptions["dataset_id"])
    /\ PlanExecute([dataset_id |-> pOptions["dataset_id"],
                    workspace_id |-> pOptions["workspace_id"],
                    settings |-> None])
    /\ UNCHANGED <<pOptions, pCaseKey, pConfigPath, pClient, pKey, pResolverCalls, pMockCalls,
                   exceptPlan>>

\* dax.py:55-57
PlanMock ==
    /\ pPc = "route"
    /\ Falsy(pOptions["dataset_id"])
    /\ pKey = Str("mock")
    /\ pMockCalls' = pMockCalls + 1
    /\ pDataset' = MockDataset
    /\ pPc' = "done"
    /\ UNCHANGED <<pOptions, pCaseKey, pConfigPath, pClient, pKey, pErr, pClientCalls,
                   pResolverCalls, exceptPlan>>

\* dax.py:59-60 and _execute_from_datasource, dax.py:96-129
PlanFromDatasource ==
    /\ pPc = "route"
    /\ Falsy(pOptions["dataset_id"])
    /\ pKey # Str("mock")
    /\ LET reference == DatasourceReference(pOptions, PlanConfig)
           datasource == Datasources[reference.ok.s]
       IN  IF IsErr(reference)
           THEN /\ PlanFail(reference.err)
                /\ UNCHANGED <<pDataset, pClientCalls, pResolverCalls, pMockCalls>>
           ELSE IF IsNone(pConfigPath)
           THEN /\ PlanFail([kind |-> "DataSourceConfigError", at |-> "config_path"])
                /\ UNCHANGED <<pDataset, pClientCalls, pResolverCalls, pMockCalls>>
           ELSE /\ pResolverCalls' = Append(pResolverCalls, reference.ok)
                /\ IF IsErr(datasource)
                   THEN /\ PlanFail(datasource.err)
                        /\ UNCHANGED <<pDataset, pClientCalls, pMockCalls>>
                   ELSE IF datasource.ok.type = "mock"
                   THEN /\ pMockCalls' = pMockCalls + 1
                        /\ pDataset' = MockDataset
                        /\ pPc' = "done"
                        /\ UNCHANGED <<pErr, pClientCalls>>
                   ELSE IF Falsy(datasource.ok.dataset_id)
                   THEN /\ PlanFail([kind |-> "DataSourceConfigError", at |-> "dataset_id"])
                        /\ UNCHANGED <<pDataset, pClientCalls, pMockCalls>>
                   ELSE /\ PlanExecute(
                            [dataset_id |-> datasource.ok.dataset_id,
                             workspace_id |-> IF ~Falsy(pOptions["workspace_id"])
                                              THEN pOptions["workspace_id"]
                                              ELSE datasource.ok.workspace_id,
                             settings |-> datasource.ok.settings])
                        /\ UNCHANGED pMockCalls
    /\ UNCHANGED <<pOptions, pCaseKey, pConfigPath, pClient, pKey, exceptPlan>>

NextPlan ==
    \/ PlanStart
    \/ PlanWithOverride
    \/ PlanMock
    \/ PlanFromDatasource

SpecPlan == InitPlan /\ [][NextPlan]_vars

----------------------------------------------------------------------------
(* C9 *)

C9_Normal ==
    [x \in {" ", " Mock ", "Mock", "PowerBI"} |->
        CASE x = " " -> "" [] x = " Mock " -> "mock" [] x = "Mock" -> "mock"
          [] x = "PowerBI" -> "powerbi"]

\* The provider the run asks for: the entry of provider_case_overrides for
\* the context's case key when it has one that is not blank, else the
\* general provider key
C9_Provider ==
    LET overrides == pOptions["provider_case_overrides"]
        general == IF pOptions["provider_key"] = None THEN ""
                   ELSE C9_Normal[pOptions["provider_key"].s]
    IN  IF pCaseKey # None /\ pCaseKey.s \in DOMAIN overrides
           /\ C9_Normal[overrides[pCaseKey.s]] # ""
        THEN C9_Normal[overrides[pCaseKey.s]]
        ELSE general

C9_DatasetOverride == pOptions["dataset_id"] \notin {None, Str("")}

\* The named datasource has been resolved, and its type decides: mock gives
\* the synthetic dataset, any other type needs a dataset id and invokes the
\* client with it
C9_FromNamedDatasource ==
    /\ Len(pResolverCalls) = 1
    /\ LET found == Datasources[pResolverCalls[1].s]
       IN  \/ DOMAIN found = {"err"} /\ pPc = "failed" /\ pClientCalls = <<>>
           \/ /\ DOMAIN found = {"ok"}
              /\ IF found.ok.type = "mock"
                 THEN pPc = "done" /\ pDataset = [from |-> "mock"] /\ pClientCalls = <<>>
                 ELSE IF found.ok.dataset_id = None
                 THEN pPc = "failed" /\ pClientCalls = <<>>
                 ELSE /\ Len(pClientCalls) = 1
                      /\ pClientCalls[1].dataset_id = found.ok.dataset_id

\* C9: a finished plan took its dataset by the fixed priority: the dataset-id
\* override invokes the client with that id and never resolves a datasource,
\* whatever the provider; otherwise a provider of mock (the case override
\* ahead of the general key) gives the synthetic dataset without resolving a
\* datasource or invoking the client; otherwise the named datasource is
\* resolved (given a config path to resolve it from) and decides.
C9_AcquisitionPriority ==
    pPc \in {"done", "failed"} =>
        IF C9_DatasetOverride
        THEN /\ Len(pClientCalls) = 1
             /\ pClientCalls[1].dataset_id = pOptions["dataset_id"]
             /\ pResolverCalls = <<>>
             /\ pMockCalls = 0
        ELSE IF C9_Provider = "mock"
        THEN /\ pPc = "done"
             /\ pDataset = [from |-> "mock"]
             /\ pResolverCalls = <<>>
             /\ pClientCalls = <<>>
        ELSE pConfigPath # None => C9_FromNamedDatasource

\* The part of the priority that holds: as above, for the runs that name
\* their datasource in the options
C9_WithDatasourceOverride ==
    pOptions["datasource_override"] # None => C9_AcquisitionPriority

----------------------------------------------------------------------------
(* C27 *)

\* What the client did is no dataset: it raised, it returned an awaitable
\* while an event loop was running, or what it returned (or what its
\* awaitable gave) is not a dataset
C27_NoDataset == pClient \in {"raises", "awaitable_in_loop", "awaitable_other", "other"}

\* C27: one plan call invokes the client at most once, and the invocation is
\* the last thing it does; when the client raised, returned an awaitable
\* under a running event loop, or returned something that is not a dataset,
\* the plan call has failed with an error, has no dataset, and has not asked
\* the mock generator.
C27_NothingRetried ==
    /\ Len(pClientCalls) <= 1
    /\ pClientCalls # <<>> => pPc \in {"done", "failed"}
    /\ (pClientCalls # <<>> /\ C27_NoDataset) =>
            /\ pPc = "failed"
            /\ pErr # NoError
            /\ pDataset = NoError
            /\ pMockCalls = 0

\* The provider asked for is mock, the dataset override sent the call to the
\* client, the client returned an awaitable under a running loop, and the
\* plan failed
C27_Witness ==
    /\ pKey = Str("mock")
    /\ Len(pClientCalls) = 1
    /\ pClient = "awaitable_in_loop"
    /\ pPc = "failed"
    /\ pErr = [kind |-> "RuntimeError"]
    /\ pMockCalls = 0

----------------------------------------------------------------------------
(* pipeline/core.py: _FrameStrategy.execute.  A child's execution is a call *)
(* of VisualPipeline.execute; fLog lists the calls and their ends in order. *)

\* Most children of a frame
MaxChildren == 3

\* The characters of the titles and file stems in use
Chars(value) ==
    CASE value = "Sales Summary" ->
            <<"S", "a", "l", "e", "s", " ", "S", "u", "m", "m", "a", "r", "y">>
      [] value = " Q1 Sales-Report! " ->
            <<" ", "Q", "1", " ", "S", "a", "l", "e", "s", "-", "R", "e", "p", "o", "r", "t",
              "!", " ">>
      [] value = "!!!" -> <<"!", "!", "!">>
      [] value = "b" -> <<"b">>
      [] value = "c" -> <<"c">>
      [] value = "" -> <<>>

\* str.lower() of one character
LowerChar(char) ==
    CASE char = "S" -> "s" [] char = "Q" -> "q" [] char = "R" -> "r" [] OTHER -> char

\* char.isalnum() or char in {"_", "-"}, on lowered characters
SlugChar(char) ==
    char \in {"a", "b", "c", "e", "l", "m", "o", "p", "q", "r", "s", "t", "u", "y", "1", "_", "-"}

\* core.py:289-292
_slugify(value) ==
    LET stripped == Strip(Chars(value))
        normalized == [i \in 1..Len(stripped) |->
                        IF stripped[i] = " " THEN "_" ELSE LowerChar(stripped[i])]
        filtered == Join(SelectSeq(normalized, SlugChar))
    IN  IF filtered = "" THEN "section" ELSE filtered

\* Path(source).stem of the files in use
Stem(source) == IF source = "/v/b.yaml" THEN "b" ELSE "c"

\* A case key that prefers the file stem to the title
ChildCaseKeyStemFirst(parent_case, child_visual, child_entry, index) ==
    LET slug == _slugify(Stem(child_entry.source))
    IN  IF ~Falsy(parent_case) THEN Str(parent_case.s \o "__" \o slug) ELSE Str(slug)

\* core.py:269-286; a FrameChildConfig's source is a Path, anything else
\* gets the positional slug
_child_case_key(parent_case, child_visual, child_entry, index) ==
    LET slug == IF ~Falsy(child_visual.title) THEN _slugify(child_visual.title.s)
                ELSE IF child_entry.source \in {"/v/b.yaml", "/v/c.yaml"}
                THEN _slugify(Stem(child_entry.source))
                ELSE "child_" \o IntToStr(index)
    IN  IF ~Falsy(parent_case) THEN Str(parent_case.s \o "__" \o slug) ELSE Str(slug)

\* PipelineOptions.without_outputs, core.py:57-58
KeepOutputs(options) == options
without_outputs(options) == [options EXCEPT !.outputs = <<>>]

\* core.py:234-239
ChildContext(context, child, index) ==
    [config_path |-> child.source,
     case_key |-> _child_case_key(context.case_key, child.visual, child, index),
     options |-> without_outputs(context.options)]

\* The context _FrameStrategy.execute is called with: fTargets is its
\* options' outputs, fOptions the other fields of its options
FrameContext == [case_key |-> fCase, options |-> [outputs |-> fTargets] @@ fOptions]

\* core.py:248
PrependPair(pairs, pair) == <<pair>> \o pairs
AppendPair(pairs, pair) == Append(pairs, pair)

\* rendering/frame.py:23-35: the figure has one table per pair, in order
frame_figure(children) ==
    [tables |-> children,
     titles |-> [k \in 1..Len(children) |->
                    IF ~Falsy(children[k][1].title) THEN children[k][1].title.s
                    ELSE "Section " \o IntToStr(k)]]

\* core.py:126-144 for a frame payload: the artifacts when every target can
\* be written
Artifacts(targets) ==
    [k \in 1..Len(targets) |-> [kind |-> targets[k].kind, path |-> targets[k].path]]

\* core.py:117-144: the targets are written one after another, each written
\* one is recorded, and the first PNG target met without kaleido raises
\* (rendering/matrix.py:65-67, rendering/frame.py:126-128); `at` is the
\* target being written when it raised, 0 when none did
_emit_outputs(targets, png_scale, kaleido) ==
    LET bad == {k \in 1..Len(targets) : targets[k].kind = "png" /\ ~kaleido}
        stop == IF bad = {} THEN Len(targets) + 1
                ELSE CHOOSE k \in bad : \A j \in bad : k <= j
        done == SubSeq(targets, 1, stop - 1)
    IN  [written |-> [k \in 1..Len(done) |->
                        [path |-> done[k].path,
                         scale |-> IF done[k].kind # "png" THEN None
                                   ELSE IF IsNone(done[k].scale) THEN png_scale
                                   ELSE done[k].scale]],
         at |-> IF bad = {} THEN 0 ELSE stop,
         returned |-> IF bad = {} THEN Ok(Artifacts(done))
                      ELSE Err([kind |-> "RuntimeError"])]

\* PipelineOptions (core.py:43-55) apart from its outputs: the defaults, and
\* a run with every switch set
OptionChoices ==
    {[data |-> "defaults", print_dax |-> FALSE, ensure_non_empty_rows |-> FALSE,
      ensure_values_present |-> FALSE, validate_define |-> FALSE, sort_rows |-> FALSE,
      html_div_id |-> None, png_scale |-> IntV(2)],
     [data |-> "live", print_dax |-> TRUE, ensure_non_empty_rows |-> TRUE,
      ensure_values_present |-> TRUE, validate_define |-> TRUE, sort_rows |-> TRUE,
      html_div_id |-> Str("div"), png_scale |-> IntV(3)]}

MatrixVisual(title) == [type |-> "matrix", title |-> title]

\* A resolved child (frame.py:58-69), an unresolved one (frame.py:11-24) and
\* a resolved child whose visual is no matrix
ChildEntries ==
    {[kind |-> "FrameChildConfig", source |-> "/v/b.yaml",
      visual |-> MatrixVisual(Str("Sales Summary"))],
     [kind |-> "FrameChildConfig", source |-> "/v/c.yaml", visual |-> MatrixVisual(None)],
     [kind |-> "FrameChildConfig", source |-> "/v/b.yaml", visual |-> MatrixVisual(Str("!!!"))],
     [kind |-> "FrameChildConfig", source |-> "/v/c.yaml",
      visual |-> MatrixVisual(Str(" Q1 Sales-Report! "))],
     [kind |-> "FrameChildConfig", source |-> "/v/b.yaml", visual |-> MatrixVisual(Str(""))],
     [kind |-> "FrameChildDefinition", source |-> "/v/b.yaml", visual |-> MatrixVisual(None)],
     [kind |-> "FrameChildConfig", source |-> "/v/c.yaml",
      visual |-> [type |-> "frame", title |-> None]]}

\* The children with what the pipeline's execution of each does: it returns
\* a result with a matrix dataset, with no dataset or with another object,
\* or it raises
ChildCases ==
    {[entry |-> entry, outcome |-> "dataset"] : entry \in ChildEntries}
    \cup {[entry |-> [kind |-> "FrameChildConfig", source |-> "/v/c.yaml",
                      visual |-> MatrixVisual(None)],
           outcome |-> outcome] :
            outcome \in {"dataset", "raises", "no_dataset", "other_dataset"}}

InitFrame ==
    /\ \E n \in 1..MaxChildren : \E cases \in [1..n -> ChildCases] :
            /\ fChildren = [i \in 1..n |-> cases[i].entry]
            /\ fOutcomes = [i \in 1..n |-> cases[i].outcome]
    /\ fCase \in {None, Str("case1")}
    /\ fTargets \in
            {<<>>,
             <<[kind |-> "html", path |-> "/out/frame.html", scale |-> None]>>,
             <<[kind |-> "html", path |-> "/out/frame.html", scale |-> None],
               [kind |-> "png", path |-> "/out/frame.png", scale |-> None]>>}
    /\ fOptions \in OptionChoices
    /\ fFiles = <<>>
    /\ fIndex = 1
    /\ fPc = "loop"
    /\ fLog = <<>>
    /\ fResults = <<>>
    /\ fPairs = <<>>
    /\ fFigure = NoError
    /\ fResult = NoError
    /\ fErr = NoError
    /\ MergeIdle /\ RenderIdle /\ BindIdle /\ ComposeIdle /\ PlanIdle /\ ExecIdle /\ QueryIdle
    /\ ValidateIdle
    /\ ReloadIdle
    /\ TokenIdle

FrameFail(error) ==
    /\ fErr' = error
    /\ fPc' = "failed"

\* core.py:225-240: the checks on the next child, its context, and the call
\* of the pipeline
FrameChildStart ==
    /\ fPc = "loop"
    /\ fIndex <= Len(fChildren)
    /\ LET child == fChildren[fIndex]
       IN  IF child.kind # "FrameChildConfig"
           THEN FrameFail([kind |-> "TypeError", at |-> "entry"]) /\ UNCHANGED fLog
           ELSE IF child.visual.type # "matrix"
           THEN FrameFail([kind |-> "TypeError", at |-> "visual"]) /\ UNCHANGED fLog
           ELSE /\ fLog' = Append(fLog, [event |-> "call", index |-> fIndex,
                                         visual |-> child.visual,
                                         context |-> ChildContext(FrameContext, child, fIndex)])
                /\ fPc' = "child"
                /\ UNCHANGED fErr
    /\ UNCHANGED <<fChildren, fOutcomes, fCase, fTargets, fIndex, fResults, fPairs, fFigure,
                   fResult, fOptions, fFiles, exceptFrame>>

\* The files an emission wrote, with who wrote them: child `by`, or the
\* frame itself when `by` is 0
Wrote(emitted, by) ==
    [k \in 1..Len(emitted.written) |->
        [path |-> emitted.written[k].path, scale |-> emitted.written[k].scale, by |-> by]]

\* core.py:240: an exception of the child's execution leaves
\* _FrameStrategy.execute at the call
RaisedIgnored(outcome) == FALSE
Raised(outcome) == outcome = "raises"

\* core.py:240-248: the call ends, by raising or with a result; the child's
\* execution emits the targets of its own context (core.py:194-200); the
\* result joins child_results, and its first dataset joins child_pairs
FrameChildReturn ==
    /\ fPc = "child"
    /\ \E kaleido \in BOOLEAN :
        LET child == fChildren[fIndex]
            outcome == fOutcomes[fIndex]
            options == fLog[Len(fLog)].context.options
            emitted == _emit_outputs(options.outputs, options.png_scale, kaleido)
            dataset == [kind |-> IF outcome = "dataset" THEN "MatrixResultSet" ELSE "object",
                        execution |-> Cardinality({k \in 1..Len(fLog) : fLog[k].event = "call"})]
            result == [config |-> child.visual,
                       datasets |-> IF outcome = "no_dataset" THEN <<>> ELSE <<dataset>>,
                       outputs |-> emitted.returned.ok]
        IN  IF Raised(outcome)
            THEN /\ fLog' = Append(fLog, [event |-> "raise", index |-> fIndex])
                 /\ FrameFail([kind |-> "ChildError", index |-> fIndex])
                 /\ UNCHANGED <<fResults, fPairs, fIndex, fFiles>>
            ELSE IF IsErr(emitted.returned)
            THEN /\ fLog' = Append(fLog, [event |-> "raise", index |-> fIndex])
                 /\ fFiles' = fFiles \o Wrote(emitted, fIndex)
                 /\ FrameFail(emitted.returned.err)
                 /\ UNCHANGED <<fResults, fPairs, fIndex>>
            ELSE /\ fLog' = Append(fLog, [event |-> "return", index |-> fIndex])
                 /\ fFiles' = fFiles \o Wrote(emitted, fIndex)
                 /\ fResults' = Append(fResults, result)
                 /\ IF result.datasets = <<>>
                    THEN /\ FrameFail([kind |-> "AssertionError"])
                         /\ UNCHANGED <<fPairs, fIndex>>
                    ELSE IF result.datasets[1].kind # "MatrixResultSet"
                    THEN /\ FrameFail([kind |-> "TypeError", at |-> "dataset"])
                         /\ UNCHANGED <<fPairs, fIndex>>
                    ELSE /\ fPairs' = AppendPair(fPairs, <<child.visual, result.datasets[1]>>)
                         /\ fIndex' = fIndex + 1
                         /\ fPc' = "loop"
                         /\ UNCHANGED fErr
    /\ UNCHANGED <<fChildren, fOutcomes, fCase, fTargets, fFigure, fResult, fOptions,
                   exceptFrame>>

\* core.py:250
FrameRender ==
    /\ fPc = "loop"
    /\ fIndex > Len(fChildren)
    /\ fFigure' = frame_figure(fPairs)
    /\ fPc' = "emit"
    /\ UNCHANGED <<fChildren, fOutcomes, fCase, fTargets, fIndex, fLog, fResults, fPairs,
                   fResult, fErr, fOptions, fFiles, exceptFrame>>

\* core.py:251-266: _emit_outputs over the context's targets, then the
\* result; an exception of _emit_outputs leaves execute with no result
FrameEmit ==
    /\ fPc = "emit"
    /\ \E kaleido \in BOOLEAN :
        LET emitted == _emit_outputs(fTargets, fOptions.png_scale, kaleido)
        IN  /\ fFiles' = fFiles \o Wrote(emitted, 0)
            /\ IF IsErr(emitted.returned)
               THEN FrameFail(emitted.returned.err) /\ UNCHANGED fResult
               ELSE /\ fResult' = [config |-> "frame", figure |-> fFigure, plans |-> <<>>,
                                   datasets |-> <<fPairs>>,
                                   outputs |-> emitted.returned.ok,
                                   children |-> fResults]
                    /\ fPc' = "done"
                    /\ UNCHANGED fErr
    /\ UNCHANGED <<fChildren, fOutcomes, fCase, fTargets, fIndex, fLog, fResults, fPairs,
                   fFigure, fOptions, exceptFrame>>

NextFrame ==
    \/ FrameChildStart
    \/ FrameChildReturn
    \/ FrameRender
    \/ FrameEmit

SpecFrame == InitFrame /\ [][NextFrame]_vars

----------------------------------------------------------------------------
(* C10 *)

\* The declared children, when every one is a resolved matrix child
C10_Declared == [k \in 1..Len(fChildren) |-> fChildren[k].visual]

\* C10: a frame's children are executed one after another in declared
\* order, the call for a child being made only after the call for the child
\* before it has returned; and the pairs handed to the frame renderer and the
\* children of the result are, one for one and in order, the declared
\* children with the dataset of their own execution.
C10_ChildrenInOrder ==
    /\ \A k \in 1..Len(fLog) :
            IF k % 2 = 1
            THEN /\ fLog[k].event = "call"
                 /\ fLog[k].index = (k + 1) \div 2
                 /\ fLog[k].visual = fChildren[(k + 1) \div 2].visual
            ELSE /\ fLog[k].event \in {"return", "raise"}
                 /\ fLog[k].index = k \div 2
                 /\ fLog[k].event = "raise" => k = Len(fLog)
    /\ fPc \in {"emit", "done"} =>
            /\ Len(fFigure.tables) = Len(fChildren)
            /\ \A k \in 1..Len(fChildren) :
                    /\ fFigure.tables[k][1] = C10_Declared[k]
                    /\ fFigure.tables[k][2].execution = k
    /\ fPc = "done" =>
            /\ Len(fResult.children) = Len(fChildren)
            /\ Len(fResult.datasets[1]) = Len(fChildren)
            /\ \A k \in 1..Len(fChildren) :
                    /\ fResult.children[k].config = C10_Declared[k]
                    /\ fResult.children[k].datasets[1].execution = k
                    /\ fResult.datasets[1][k] = <<C10_Declared[k], fResult.children[k].datasets[1]>>

\* A frame of three children with different visuals, executed to the end
C10_Witness ==
    /\ fPc = "done"
    /\ Len(fChildren) = 3
    /\ fChildren[1] # fChildren[2]
    /\ fChildren[2] # fChildren[3]
    /\ Len(fLog) = 6

----------------------------------------------------------------------------
(* C11 *)

\* The children whose execution raises and has come to its end
C11_Raised == {k \in 1..Len(fChildren) : fOutcomes[k] = "raises" /\ Len(fLog) >= 2 * k}

\* C11: when the execution of child k raises, frame execution has failed
\* with that child's error, the call for child k is the last call made, no
\* figure has been rendered, no result is returned and the frame has written
\* no file.
C11_FailingChildAborts ==
    \A k \in C11_Raised :
        /\ fPc = "failed"
        /\ fErr = [kind |-> "ChildError", index |-> k]
        /\ Len(fLog) = 2 * k
        /\ fLog[2 * k] = [event |-> "raise", index |-> k]
        /\ Len(fResults) = k - 1
        /\ Len(fPairs) = k - 1
        /\ fFigure = NoError
        /\ fResult = NoError
        /\ fFiles = <<>>

\* The second of three children raises, with targets requested
C11_Witness ==
    /\ C11_Raised = {2}
    /\ Len(fChildren) = 3
    /\ fOutcomes[1] = "dataset"
    /\ Len(fTargets) = 2
    /\ fPc = "failed"

----------------------------------------------------------------------------
(* C12 *)

\* The calls of the pipeline made for the children so far
C12_Calls == {k \in 1..Len(fLog) : fLog[k].event = "call"}

C12_ChildOptions ==
    \A k \in C12_Calls :
        LET options == fLog[k].context.options
        IN  /\ options.outputs = <<>>
            /\ DOMAIN options = DOMAIN fOptions \cup {"outputs"}
            /\ \A field \in DOMAIN fOptions : options[field] = fOptions[field]

C12_OnlyFrameEmits ==
    /\ \A k \in 1..Len(fResults) : fResults[k].outputs = <<>>
    /\ \A k \in 1..Len(fFiles) : fFiles[k].by = 0
    /\ fPc # "done" /\ fPc # "failed" => fFiles = <<>>
    /\ fPc = "done" =>
            /\ Len(fResult.outputs) = Len(fTargets)
            /\ Len(fFiles) = Len(fTargets)
            /\ \A k \in 1..Len(fTargets) :
                    /\ fResult.outputs[k] = [kind |-> fTargets[k].kind, path |-> fTargets[k].path]
                    /\ fFiles[k].path = fTargets[k].path
            /\ \A k \in 1..Len(fResult.children) : fResult.children[k].outputs = <<>>

\* C12: every child of a frame is executed with an empty target list and
\* with every other option of the parent unchanged; no child execution
\* writes a file or records an artifact, while the frame that completes has
\* written and recorded one artifact per requested target, in order; and no
\* step of the frame's execution changes the parent's options or its target
\* list.
C12_ChildrenEmitNothing ==
    /\ [](C12_ChildOptions /\ C12_OnlyFrameEmits)
    /\ [][fTargets' = fTargets /\ fOptions' = fOptions]_vars

\* A frame run with non-default switches and two targets completes after
\* two children
C12_Witness ==
    /\ fPc = "done"
    /\ Len(fTargets) = 2
    /\ Len(fFiles) = 2
    /\ fOptions.sort_rows
    /\ Cardinality(C12_Calls) = 2

----------------------------------------------------------------------------
(* pipeline/core.py: _MatrixStrategy.execute.  The planner is a            *)
(* collaborator: what it returns, or that it raises, is given.  A row of   *)
(* the dataset maps column names to values.                                *)

\* Most rows of a dataset
MaxRows == 2

\* core.py:181, `value.label or value.id`
AliasIsId(value) == value.id
Alias(value) == IF Falsy(value.label) THEN value.id ELSE value.label

\* core.py:170, the sort key of a row: the dataset has the one row field
\* dim.City
RowKey(row) == PyStr(Get(row, "dim.City"))

\* core.py:168-171: sorted() is stable
RECURSIVE SortedRows(_)
SortedRows(rows) ==
    IF rows = <<>> THEN <<>>
    ELSE LET rest == SortedRows(SubSeq(rows, 1, Len(rows) - 1))
             last == rows[Len(rows)]
             k == Cardinality({i \in 1..Len(rest) : Rank(RowKey(rest[i])) <= Rank(RowKey(last))})
         IN  SubSeq(rest, 1, k) \o <<last>> \o SubSeq(rest, k + 1, Len(rest))

\* The checks of core.py:174-189 when none is made
InvariantErrorNone(options, visual, plan, rows) == NoError

\* core.py:174-189: the checks in order, and the first one that fails
InvariantError(options, visual, plan, rows) ==
    LET missing == {k \in 1..Len(visual.values) :
                        IsNone(Get(rows[1], Alias(visual.values[k]).s))}
        config_define == IF Falsy(visual.define) \/ StripValue(visual.define) = Str("")
                         THEN None ELSE StripValue(visual.define)
    IN  IF options.ensure_non_empty_rows /\ rows = <<>>
        THEN [kind |-> "AssertionError", check |-> "rows"]
        ELSE IF options.ensure_values_present /\ rows # <<>> /\ missing # {}
        THEN [kind |-> "AssertionError", check |-> "values",
              alias |-> Alias(visual.values[CHOOSE k \in missing : \A j \in missing : k <= j])]
        ELSE IF options.validate_define /\ plan.define # config_define
        THEN [kind |-> "AssertionError", check |-> "define"]
        ELSE NoError

\* MatrixValueConfig (matrix.py:18-36): an id with its label
ValueSpec(id, label) == [id |-> Str(id), label |-> label]

\* The visuals executed, each with the define of the plan made for it: a
\* value labelled with its id, values with labels of their own, a value
\* with no label, and a define that the plan keeps or loses
ExecVisuals ==
    {[values |-> values, define |-> None, plan |-> None] :
        values \in {<<ValueSpec("Total", Str("Total"))>>,
                    <<ValueSpec("Total", Str("Total Sales")), ValueSpec("Count", Str("Count"))>>,
                    <<ValueSpec("Total", None)>>}}
    \cup {[values |-> <<ValueSpec("Total", Str("Total"))>>, define |-> Str(" Total "),
           plan |-> plan] : plan \in {Str("Total"), None}}

\* Rows of a dataset: one with every column, one with the id's column only,
\* one whose labelled column is null, one without the row field
ExecRows ==
    {[k \in {"dim.City", "Total", "Total Sales", "Count"} |->
        CASE k = "dim.City" -> Str("Zed") [] k = "Total" -> IntV(5)
          [] k = "Total Sales" -> IntV(7) [] k = "Count" -> IntV(1)],
     [k \in {"dim.City", "Total"} |-> IF k = "Total" THEN IntV(5) ELSE Str("Alpha")],
     [k \in {"dim.City", "Total Sales", "Count"} |->
        CASE k = "dim.City" -> Str("City") [] k = "Total Sales" -> None
          [] k = "Count" -> IntV(2)],
     [k \in {"Total Sales", "Count"} |-> IF k = "Count" THEN IntV(3) ELSE IntV(7)]}

\* The switches of PipelineOptions (core.py:43-55) that execute reads
ExecOptions ==
    {[ensure_non_empty_rows |-> rows, ensure_values_present |-> values,
      sort_rows |-> other = "sort", validate_define |-> other = "define",
      png_scale |-> IntV(2)] :
        rows \in BOOLEAN, values \in BOOLEAN, other \in {"none", "sort", "define"}}

InitExec ==
    /\ \E visual \in ExecVisuals :
            /\ xVisual = [values |-> visual.values, define |-> visual.define]
            /\ xPlanner \in {Err([kind |-> "PlannerError"])}
                    \cup {Ok([plan |-> [define |-> visual.plan], rows |-> rows]) :
                            rows \in UNION {[1..n -> ExecRows] : n \in 0..MaxRows}}
    /\ xOptions \in ExecOptions
    /\ xTargets \in
            {<<>>,
             <<[kind |-> "html", path |-> "/out/matrix.html", scale |-> None]>>,
             <<[kind |-> "html", path |-> "/out/matrix.html", scale |-> None],
               [kind |-> "png", path |-> "/out/matrix.png", scale |-> IntV(3)]>>,
             <<[kind |-> "png", path |-> "/out/matrix.png", scale |-> None],
               [kind |-> "html", path |-> "/out/matrix.html", scale |-> None]>>}
    /\ xKaleido \in BOOLEAN
    /\ xRows = <<>>
    /\ xPc = "plan"
    /\ xFiles = <<>>
    /\ xResult = NoError
    /\ xErr = NoError
    /\ MergeIdle /\ RenderIdle /\ BindIdle /\ ComposeIdle /\ PlanIdle /\ FrameIdle /\ QueryIdle
    /\ ValidateIdle
    /\ ReloadIdle
    /\ TokenIdle

ExecFail(error) ==
    /\ xErr' = error
    /\ xPc' = "failed"

\* core.py:158-165: the planner's plan and dataset, or its exception
ExecPlan ==
    /\ xPc = "plan"
    /\ IF IsErr(xPlanner)
       THEN ExecFail(xPlanner.err) /\ UNCHANGED xRows
       ELSE xRows' = xPlanner.ok.rows /\ xPc' = "sort" /\ UNCHANGED xErr
    /\ UNCHANGED <<xVisual, xPlanner, xOptions, xTargets, xKaleido, xFiles, xResult,
                   exceptExec>>

\* core.py:167-172
ExecSort ==
    /\ xPc = "sort"
    /\ xRows' = IF xOptions.sort_rows /\ xRows # <<>> THEN SortedRows(xRows) ELSE xRows
    /\ xPc' = "check"
    /\ UNCHANGED <<xVisual, xPlanner, xOptions, xTargets, xKaleido, xFiles, xResult, xErr,
                   exceptExec>>

\* core.py:174-189
ExecCheck ==
    /\ xPc = "check"
    /\ LET error == InvariantError(xOptions, xVisual, xPlanner.ok.plan, xRows)
       IN  IF error # NoError THEN ExecFail(error)
           ELSE xPc' = "emit" /\ UNCHANGED xErr
    /\ UNCHANGED <<xVisual, xPlanner, xOptions, xTargets, xKaleido, xRows, xFiles, xResult,
                   exceptExec>>

\* core.py:192-208: the figure, _emit_outputs over the options' targets,
\* and the result; an exception of _emit_outputs leaves execute with no
\* result
ExecEmit ==
    /\ xPc = "emit"
    /\ LET emitted == _emit_outputs(xTargets, xOptions.png_scale, xKaleido)
       IN  /\ xFiles' = Wrote(emitted, 0)
           /\ IF IsErr(emitted.returned)
              THEN ExecFail(emitted.returned.err) /\ UNCHANGED xResult
              ELSE /\ xResult' = [config |-> xVisual, plans |-> <<xPlanner.ok.plan>>,
                                  datasets |-> <<xRows>>, outputs |-> emitted.returned.ok]
                   /\ xPc' = "done"
                   /\ UNCHANGED xErr
    /\ UNCHANGED <<xVisual, xPlanner, xOptions, xTargets, xKaleido, xRows, exceptExec>>

NextExec ==
    \/ ExecPlan
    \/ ExecSort
    \/ ExecCheck
    \/ ExecEmit

SpecExec == InitExec /\ [][NextExec]_vars

----------------------------------------------------------------------------
(* C13 *)

\* An HTML target followed by a PNG target, and the PNG write has failed
C13_PngFailedAfterHtml ==
    /\ Len(xTargets) = 2
    /\ xTargets[1].kind = "html"
    /\ xTargets[2].kind = "png"
    /\ xPc = "failed"
    /\ xErr.kind = "RuntimeError"

\* The HTML file written before the failure is still in place
C13_HtmlFileKept ==
    C13_PngFailedAfterHtml =>
        /\ Len(xFiles) = 1
        /\ xFiles[1].path = xTargets[1].path

\* C13: when an HTML target is followed by a PNG target and the PNG write
\* fails, the HTML file already written stays in place and the HTML artifact
\* is recorded among the output artifacts of the execution.
C13_PerTargetErrors ==
    /\ C13_HtmlFileKept
    /\ C13_PngFailedAfterHtml =>
            /\ xResult # NoError
            /\ \E k \in 1..Len(xResult.outputs) :
                    xResult.outputs[k] = [kind |-> "html", path |-> xTargets[1].path]

----------------------------------------------------------------------------
(* C14 *)

\* The invariant checks have been made: execution is past them, or one of
\* them or a later step has raised
C14_Checked == xPc \in {"emit", "done"} \/ (xPc = "failed" /\ xErr.kind # "PlannerError")

C14_Raised(check) ==
    xPc = "failed" /\ xErr.kind = "AssertionError" /\ xErr.check = check

\* The name a value has in a row: its label, or its id when it has none
C14_Name(value) == IF value.label \in {None, Str("")} THEN value.id.s ELSE value.label.s

C14_Null(row, name) == name \notin DOMAIN row \/ row[name] = None

\* The rows are the planner's rows, each as many times as the planner gave
\* it, and in the planner's order unless they were to be sorted
C14_RowsKept ==
    LET given == xPlanner.ok.rows
    IN  /\ Len(xRows) = Len(given)
        /\ \A row \in ExecRows :
                Cardinality({k \in 1..Len(xRows) : xRows[k] = row})
                    = Cardinality({k \in 1..Len(given) : given[k] = row})
        /\ ~xOptions.sort_rows => xRows = given

\* C14: the checks are toggled independently and repair nothing: matrix
\* execution raises the no-rows error exactly when ensure_non_empty_rows is
\* set and the dataset has no rows; it raises the missing-value error
\* exactly when ensure_values_present is set, the dataset has rows, and on
\* its first row (the first after the sort, when rows are sorted) some
\* declared value is absent or null under its label, or under its id when
\* it has no label; the rows stay the ones the planner returned.
C14_InvariantChecks ==
    C14_Checked =>
        /\ C14_Raised("rows") <=> (xOptions.ensure_non_empty_rows /\ xRows = <<>>)
        /\ C14_Raised("values") <=>
                /\ xOptions.ensure_values_present
                /\ xRows # <<>>
                /\ \E k \in 1..Len(xVisual.values) :
                        C14_Null(xRows[1], C14_Name(xVisual.values[k]))
        /\ C14_RowsKept

\* C14 as stated: the missing-value error is raised exactly when some
\* declared value id is absent or null on the first row.
C14_ByValueId ==
    C14_Checked =>
        /\ C14_Raised("rows") <=> (xOptions.ensure_non_empty_rows /\ xRows = <<>>)
        /\ C14_Raised("values") <=>
                /\ xOptions.ensure_values_present
                /\ xRows # <<>>
                /\ \E k \in 1..Len(xVisual.values) :
                        C14_Null(xRows[1], xVisual.values[k].id.s)

\* A value labelled otherwise than its id is null on the row that the sort
\* puts first, with the no-rows check off
C14_Witness ==
    /\ C14_Raised("values")
    /\ ~xOptions.ensure_non_empty_rows
    /\ xOptions.sort_rows
    /\ xRows # xPlanner.ok.rows
    /\ xErr.alias = Str("Total Sales")
    /\ "Total" \in DOMAIN xRows[1]

----------------------------------------------------------------------------
(* C26 *)

\* The steps of _MatrixStrategy.execute (core.py:158-208), each with the
\* positions that may follow it
C26_Follows ==
    {<<"plan", "sort">>, <<"plan", "failed">>, <<"sort", "check">>,
     <<"check", "emit">>, <<"check", "failed">>, <<"emit", "done">>, <<"emit", "failed">>}

\* The dataset the checks are applied to: the planner's rows, sorted when
\* sort_rows is set
C26_Dataset ==
    IF xOptions.sort_rows /\ xPlanner.ok.rows # <<>>
    THEN SortedRows(xPlanner.ok.rows) ELSE xPlanner.ok.rows

\* Every enabled check holds of the dataset and the plan
C26_ChecksPass ==
    /\ xOptions.ensure_non_empty_rows => C26_Dataset # <<>>
    /\ (xOptions.ensure_values_present /\ C26_Dataset # <<>>) =>
            \A k \in 1..Len(xVisual.values) :
                ~C14_Null(C26_Dataset[1], C14_Name(xVisual.values[k]))
    /\ xOptions.validate_define =>
            xPlanner.ok.plan.define
                = (IF xVisual.define \in {None, Str("")} \/ StripValue(xVisual.define) = Str("")
                   THEN None ELSE StripValue(xVisual.define))

\* Planning or an enabled check has failed
C26_FailedBeforeRender ==
    xPc = "failed" /\ xErr.kind \in {"PlannerError", "AssertionError"}

\* C26: matrix execution goes through plan, sort, check and emit in this
\* order and ends at the first step that fails; the rows are there before
\* any check is made, a file is written only by the emit step, and only
\* after the planner returned and every enabled check passed on the rows as
\* they are after the optional sort; an execution whose planning or check
\* failed has written no file and has no result.
C26_StagesInOrder ==
    /\ [][xPc' # xPc => <<xPc, xPc'>> \in C26_Follows]_vars
    /\ [][xFiles' # xFiles => xPc = "emit"]_vars
    /\ [](xPc \in {"check", "emit", "done"} => (IsOk(xPlanner) /\ xRows = C26_Dataset))
    /\ []((xPc \in {"emit", "done"} \/ xFiles # <<>>) => (IsOk(xPlanner) /\ C26_ChecksPass))
    /\ [](C26_FailedBeforeRender => (xFiles = <<>> /\ xResult = NoError))

\* A check failed on rows that the sort reordered, with output targets
\* asked for, and nothing was written
C26_Witness ==
    /\ xPc = "failed"
    /\ xErr.kind = "AssertionError"
    /\ xOptions.sort_rows
    /\ xRows # xPlanner.ok.rows
    /\ xTargets # <<>>
    /\ xFiles = <<>>

----------------------------------------------------------------------------
(* templating.py: field references, and dax.py: build_matrix_query.  Text  *)
(* that the code scans for quotes, brackets or dots is a sequence of       *)
(* tokens in which each of those characters is a token of its own; no      *)
(* token holds a line break.  A text of several lines is the sequence of   *)
(* its lines until it is joined into the statement.                        *)

\* sep.join(parts)
RECURSIVE JoinWith(_, _)
JoinWith(parts, sep) ==
    IF parts = <<>> THEN ""
    ELSE IF Len(parts) = 1 THEN parts[1]
    ELSE parts[1] \o sep \o JoinWith(Tail(parts), sep)

\* templating.py:43-60, on the expression a placeholder matched;
\* _clean_expression gives Join(base)
_parse_field(expression) ==
    LET base == Strip(BeforePipe(expression))
        dots == {i \in 1..Len(base) : base[i] = "."}
        first == CHOOSE i \in dots : \A j \in dots : i <= j
        table == IF dots = {} THEN ""
                 ELSE Join(Strip(SubSeq(base, 1, first - 1)))
        column == IF dots = {} THEN Join(base)
                  ELSE Join(Strip(SubSeq(base, first + 1, Len(base))))
    IN  IF _clean_expression(expression) = ""
        THEN Err([kind |-> "ValueError", what |-> "empty placeholder"])
        ELSE IF column = ""
        THEN Err([kind |-> "ValueError", what |-> "invalid field"])
        ELSE Ok([expression |-> _clean_expression(expression),
                 table |-> IF table = "" THEN None ELSE Str(table),
                 column |-> column])

\* templating.py:63-67: the references of one template, left to right
iter_field_references(template) ==
    LET matches == SelectSeq(Segments(template), IsPh)
    IN  [i \in 1..Len(matches) |-> _parse_field(MatchExpr(matches[i].ph))]

\* The last reference of each expression, in order of last appearance
RECURSIVE KeepLast(_)
KeepLast(references) ==
    IF references = <<>> THEN <<>>
    ELSE LET rest == KeepLast(Tail(references))
             first == Head(references)
         IN  IF \E i \in 1..Len(rest) : rest[i].expression = first.expression
             THEN rest ELSE <<first>> \o rest

\* templating.py:73-77, ordered.setdefault over parsed references: the
\* first reference of each expression, in order of first appearance
RECURSIVE SetDefault(_)
SetDefault(references) ==
    IF references = <<>> THEN <<>>
    ELSE LET rest == SetDefault(SubSeq(references, 1, Len(references) - 1))
             last == references[Len(references)]
         IN  IF \E i \in 1..Len(rest) : rest[i].expression = last.expression
             THEN rest ELSE rest \o <<last>>

RECURSIVE Concat(_)
Concat(seqs) == IF seqs = <<>> THEN <<>> ELSE Head(seqs) \o Concat(Tail(seqs))

\* templating.py:70-77: the first placeholder that is no field raises
extract_field_references(templates) ==
    LET parsed == Concat([i \in 1..Len(templates) |-> iter_field_references(templates[i])])
        bad == {i \in 1..Len(parsed) : IsErr(parsed[i])}
    IN  IF bad # {} THEN parsed[CHOOSE i \in bad : \A j \in bad : i <= j]
        ELSE Ok(SetDefault([i \in 1..Len(parsed) |-> parsed[i].ok]))

\* FieldReference.dax_reference, templating.py:21-27
dax_reference(field) ==
    IF ~Falsy(field.table) THEN field.table.s \o "[" \o field.column \o "]"
    ELSE "[" \o field.column \o "]"

\* A str given by its tokens
Text(tokens) == [k |-> tokens]

\* A label written as it is
KeepLabel(label) == Join(label.k)

\* str.replace('"', '""'), dax.py:28-29 and 70-71
_escape_label(label) ==
    Join([i \in 1..Len(label.k) |-> IF label.k[i] = "\"" THEN "\"\"" ELSE label.k[i]])

\* dax.py:32-36
_format_measure(identifier) ==
    LET trimmed == Strip(identifier.k)
    IN  IF trimmed # <<>> /\ trimmed[1] = "[" /\ trimmed[Len(trimmed)] = "]"
        THEN Join(trimmed)
        ELSE "[" \o Join(trimmed) \o "]"

\* dax.py:39-54
_apply_show_as(show_as, measure, row_fields) ==
    LET n == Len(row_fields)
        primary == row_fields[n]
        target(field) == IF ~Falsy(field.table) THEN field.table.s ELSE dax_reference(field)
        clauses == <<"REMOVEFILTERS(" \o dax_reference(primary) \o ")">>
                   \o [i \in 1..(n - 1) |-> "REMOVEFILTERS(" \o target(row_fields[i]) \o ")"]
    IN  IF Falsy(show_as) THEN measure
        ELSE IF StripLower(show_as.s) = "percent of column total" /\ n > 0
        THEN "DIVIDE(" \o measure \o ", CALCULATE(" \o measure \o ", "
                \o JoinWith(clauses, ", ") \o "))"
        ELSE measure

\* dax.py:57-82; a field without "." cannot be unpacked
_format_filter_clause(filter_config) ==
    LET field == filter_config.field.s
        reference == StripStr(FieldParts[field][1]) \o "[" \o StripStr(FieldParts[field][2]) \o "]"
        include == filter_config.include.l
        values == JoinWith([i \in 1..Len(include) |->
                                "\"" \o _escape_label(include[i]) \o "\""], ", ")
    IN  IF ~Falsy(filter_config.expression) THEN Ok(filter_config.expression.s)
        ELSE IF Falsy(filter_config.field) \/ Falsy(filter_config.include)
        THEN Err([kind |-> "ValueError", what |-> "filter"])
        ELSE IF field \notin DOMAIN FieldParts
        THEN Err([kind |-> "ValueError", what |-> "unpack"])
        ELSE Ok(reference \o " IN { " \o values \o " }")

\* dax.py:85-91, as lines
_summarize_columns(row_lines, value_lines) ==
    LET inner_parts == row_lines \o value_lines
        n == Len(inner_parts)
    IN  <<"SUMMARIZECOLUMNS(">>
        \o (IF n = 0 THEN <<"    ">>
            ELSE [i \in 1..n |-> "    " \o inner_parts[i] \o (IF i < n THEN "," ELSE "")])
        \o <<")">>

\* dax.py:94-98, on the lines of the text
_indent_block(lines) == [i \in 1..Len(lines) |-> "    " \o lines[i]]

\* A wrapper that lists the filters before the body
FiltersFirst(body, filter_lines) ==
    LET n == Len(filter_lines)
    IN  <<"CALCULATETABLE(">>
        \o [i \in 1..n |-> "    " \o filter_lines[i] \o ","]
        \o [i \in 1..Len(body) |-> "    " \o body[i]]
        \o <<")">>

\* dax.py:101-107, as lines
_wrap_with_filters(body, filter_lines) ==
    LET indented == _indent_block(body)
        n == Len(filter_lines)
    IN  IF filter_lines = <<>> THEN body
        ELSE <<"CALCULATETABLE(">>
             \o [i \in 1..Len(indented) |->
                    indented[i] \o (IF i = Len(indented) THEN "," ELSE "")]
             \o [i \in 1..n |-> "    " \o filter_lines[i] \o (IF i < n THEN "," ELSE "")]
             \o <<")">>

\* dax.py:110-147 when the define block is left out of the statement
BuildQueryWithoutDefine(config, row_fields) ==
    Ok([statement |-> "EVALUATE\n"
                        \o JoinWith(_summarize_columns(
                                [i \in 1..Len(row_fields) |-> dax_reference(row_fields[i])],
                                <<>>), "\n"),
        rows |-> row_fields,
        values |-> <<>>,
        define |-> config.define])

\* dax.py:110-147
build_matrix_query(config, row_fields) ==
    LET row_lines == [i \in 1..Len(row_fields) |-> dax_reference(row_fields[i])]
        alias(value) == _escape_label(IF IsNone(value.label) \/ value.label = Text(<<>>)
                                      THEN value.id ELSE value.label)
        value_lines == [i \in 1..Len(config.values) |->
                            "\"" \o alias(config.values[i]) \o "\", "
                            \o _apply_show_as(config.values[i].show_as,
                                              _format_measure(config.values[i].id), row_fields)]
        measure_names == [i \in 1..Len(config.values) |->
                            _format_measure(config.values[i].id)]
        filters == [i \in 1..Len(config.filters) |-> _format_filter_clause(config.filters[i])]
        bad == {i \in 1..Len(filters) : IsErr(filters[i])}
        filter_lines == [i \in 1..Len(filters) |-> filters[i].ok]
        summarize == _summarize_columns(row_lines, value_lines)
        body == IF filter_lines = <<>> THEN summarize
                ELSE _wrap_with_filters(summarize, filter_lines)
        define_block == IF Falsy(config.define) \/ StripStr(config.define.s) = "" THEN None
                        ELSE Str(StripStr(config.define.s))
        parts == (IF IsNone(define_block) THEN <<>>
                  ELSE <<"DEFINE\n" \o define_block.s>>)
                 \o <<"EVALUATE\n" \o JoinWith(body, "\n")>>
    IN  IF bad # {} THEN filters[CHOOSE i \in bad : \A j \in bad : i <= j]
        ELSE Ok([statement |-> JoinWith(parts, "\n\n"),
                 rows |-> row_fields,
                 values |-> measure_names,
                 define |-> define_block])

\* The number of row templates of a visual
MaxTemplates == 2

\* Row templates: one field, a field with a filter suffix and a second
\* field, a field without a table, the same two fields in the other order,
\* no placeholder, a table without a column, an empty placeholder, and a
\* column behind a leading dot next to the bare column
QueryTemplates ==
    { Tpl(<<Ph(<<"dim", ".", "City">>)>>),
      Tpl(<<Ph(<<" ", "dim", ".", "City", " ", "|", " ", "upper", " ">>), Lit(" / "),
            Ph(<<"fact", ".", "metric">>)>>),
      Tpl(<<Ph(<<"City">>)>>),
      Tpl(<<Ph(<<"fact", ".", "metric">>), Ph(<<"dim", ".", "City">>)>>),
      Str("Total"),
      Tpl(<<Ph(<<"dim", ".">>)>>),
      Tpl(<<Ph(<<" ">>)>>),
      Tpl(<<Ph(<<".", "City">>), Ph(<<"City">>)>>) }

\* MatrixValueConfig, matrix.py:18-36
QueryValue(id, label, show_as) == [id |-> Text(id), label |-> label, show_as |-> show_as]

\* MatrixFilterConfig, matrix.py:89-105
QueryFilter(field, include, expression) ==
    [field |-> field, include |-> include, expression |-> expression]

QueryValues ==
    { <<QueryValue(<<"Total Sales">>, Text(<<"Sales">>), None)>>,
      <<QueryValue(<<"[", "Total", "]">>, Text(<<"Big ", "\"", "Sales", "\"">>),
                   Str(" Percent of column total ")),
        QueryValue(<<"Count">>, Text(<<"Count">>), Str("Percent Of Row Total"))>>,
      <<QueryValue(<<"Count">>, Text(<<"Count">>), Str("Percent of column total")),
        QueryValue(<<"Total Sales">>, Text(<<"Sales">>), None)>> }

QueryFilters ==
    { <<>>,
      <<QueryFilter(Str("dim.City"), List(<<Text(<<"Seattle">>), Text(<<"Portland">>)>>), None)>>,
      <<QueryFilter(None, None, Str("dim[City] <> \"Unknown\""))>>,
      <<QueryFilter(None, None, Str("dim[City] <> \"Unknown\"")),
        QueryFilter(Str("a.b.c"), List(<<Text(<<"6", "\"", " pipe">>), Text(<<"Bolt">>)>>),
                    None)>>,
      <<QueryFilter(None, None, None)>> }

QueryDefines == {None, Str(" "), Str(" MEASURE m = 1 ")}

InitQuery ==
    /\ MergeIdle /\ RenderIdle /\ BindIdle /\ ComposeIdle /\ PlanIdle /\ FrameIdle /\ ExecIdle
    /\ ValidateIdle
    /\ \E n \in 1..MaxTemplates : qTemplates \in [1..n -> QueryTemplates]
    /\ \E values \in QueryValues, filters \in QueryFilters, define \in QueryDefines :
            qConfig = [values |-> values, filters |-> filters, define |-> define]
    /\ qFields = Ok(<<>>)
    /\ qPlan = NoError
    /\ qPc = "extract"

\* planners/mock.py:27: the row fields of the visual's row templates
    /\ ReloadIdle
    /\ TokenIdle
QueryExtract ==
    /\ qPc = "extract"
    /\ qFields' = extract_field_references(qTemplates)
    /\ qPc' = IF IsErr(qFields') THEN "failed" ELSE "build"
    /\ UNCHANGED <<qTemplates, qConfig, qPlan, exceptQuery>>

\* planners/mock.py:28: the plan of the visual over those row fields
QueryBuild ==
    /\ qPc = "build"
    /\ qPlan' = build_matrix_query(qConfig, qFields.ok)
    /\ qPc' = IF IsErr(qPlan') THEN "failed" ELSE "done"
    /\ UNCHANGED <<qTemplates, qConfig, qFields, exceptQuery>>

NextQuery == QueryExtract \/ QueryBuild

SpecQuery == InitQuery /\ [][NextQuery]_vars

----------------------------------------------------------------------------
(* The statement as the specification words it, for a given reading of     *)
(* the measure of a value                                                  *)

RECURSIVE Doubled(_)
Doubled(tokens) ==
    IF tokens = <<>> THEN ""
    ELSE (IF Head(tokens) = "\"" THEN "\"\"" ELSE Head(tokens)) \o Doubled(Tail(tokens))

Bracketed(id) ==
    IF id # <<>> /\ Head(id) = "[" /\ id[Len(id)] = "]" THEN Join(id) ELSE "[" \o Join(id) \o "]"

Qualified(field) ==
    IF IsNone(field.table) THEN "[" \o field.column \o "]"
    ELSE field.table.s \o "[" \o field.column \o "]"

IsPercentOfColumnTotal(value) ==
    /\ ~IsNone(value.show_as)
    /\ StripLower(value.show_as.s) = "percent of column total"

ExpectedClauses(config, row_fields, Measure(_, _)) ==
    [i \in 1..Len(row_fields) |-> Qualified(row_fields[i])]
    \o [i \in 1..Len(config.values) |->
            "\"" \o Doubled(config.values[i].label.k) \o "\", "
            \o Measure(config.values[i], row_fields)]

ExpectedFilter(filter) ==
    IF ~IsNone(filter.expression) THEN filter.expression.s
    ELSE StripStr(FieldParts[filter.field.s][1]) \o "[" \o StripStr(FieldParts[filter.field.s][2])
         \o "] IN { "
         \o JoinWith([i \in 1..Len(filter.include.l) |->
                        "\"" \o Doubled(filter.include.l[i].k) \o "\""], ", ")
         \o " }"

ExpectedStatement(config, row_fields, Measure(_, _)) ==
    LET clauses == ExpectedClauses(config, row_fields, Measure)
        define == IF IsNone(config.define) \/ StripStr(config.define.s) = "" THEN ""
                  ELSE "DEFINE\n" \o StripStr(config.define.s) \o "\n\n"
        filters == [i \in 1..Len(config.filters) |-> "    " \o ExpectedFilter(config.filters[i])]
    IN  IF config.filters = <<>>
        THEN define \o "EVALUATE\nSUMMARIZECOLUMNS(\n    " \o JoinWith(clauses, ",\n    ") \o "\n)"
        ELSE define \o "EVALUATE\nCALCULATETABLE(\n    SUMMARIZECOLUMNS(\n        "
             \o JoinWith(clauses, ",\n        ") \o "\n    ),\n"
             \o JoinWith(filters, ",\n") \o "\n)"

----------------------------------------------------------------------------
(* C15 *)

\* The REMOVEFILTERS arguments in the order the specification gives: every
\* row field but the last by its table (its reference without one), in row
\* order, and then the last row field's reference
C15_Arguments(row_fields) ==
    LET n == Len(row_fields)
    IN  [i \in 1..n |->
            IF i = n THEN "REMOVEFILTERS(" \o Qualified(row_fields[i]) \o ")"
            ELSE IF IsNone(row_fields[i].table)
            THEN "REMOVEFILTERS(" \o Qualified(row_fields[i]) \o ")"
            ELSE "REMOVEFILTERS(" \o row_fields[i].table.s \o ")"]

C15_Measure(value, row_fields) ==
    IF IsPercentOfColumnTotal(value) /\ row_fields # <<>>
    THEN "DIVIDE(" \o Bracketed(value.id.k) \o ", CALCULATE(" \o Bracketed(value.id.k) \o ", "
         \o JoinWith(C15_Arguments(row_fields), ", ") \o "))"
    ELSE Bracketed(value.id.k)

\* C15: in every plan built, a value shown as percent of column total over
\* at least one row field compiles to DIVIDE(M, CALCULATE(M, ...)) whose
\* REMOVEFILTERS arguments are the other row fields' tables (references
\* where there is no table) in row order followed by the last row field's
\* reference, and every other value compiles to its measure unchanged.
C15_LastFieldIsFinalArgument ==
    qPc = "done" =>
        qPlan.ok.statement = ExpectedStatement(qConfig, qFields.ok, C15_Measure)

----------------------------------------------------------------------------
(* C16 *)

\* The measure of a value: the bracketed id, and over at least one row
\* field a value shown as percent of column total divides it by itself
\* with the row fields' filters removed
ExpectedMeasure(value, row_fields) ==
    LET n == Len(row_fields)
        M == Bracketed(value.id.k)
        removed == <<"REMOVEFILTERS(" \o Qualified(row_fields[n]) \o ")">>
                   \o [i \in 1..(n - 1) |->
                        IF IsNone(row_fields[i].table)
                        THEN "REMOVEFILTERS(" \o Qualified(row_fields[i]) \o ")"
                        ELSE "REMOVEFILTERS(" \o row_fields[i].table.s \o ")"]
    IN  IF IsPercentOfColumnTotal(value) /\ n > 0
        THEN "DIVIDE(" \o M \o ", CALCULATE(" \o M \o ", " \o JoinWith(removed, ", ") \o "))"
        ELSE M

C16_Plain ==
    /\ qConfig.filters = <<>>
    /\ IsNone(qConfig.define) \/ StripStr(qConfig.define.s) = ""

\* C16: every plan built lists the given row fields in their order and the
\* values' measures (the id when bracket-quoted, [id] otherwise) in declared
\* order; without filters and define its statement is EVALUATE, a newline,
\* and SUMMARIZECOLUMNS over the row clauses in the given order followed by
\* the value clauses "<label, quotes doubled>", <measure> in declared order.
C16_SummarizeColumns ==
    qPc = "done" =>
        /\ qPlan.ok.rows = qFields.ok
        /\ qPlan.ok.values = [i \in 1..Len(qConfig.values) |-> Bracketed(qConfig.values[i].id.k)]
        /\ C16_Plain =>
                qPlan.ok.statement =
                    "EVALUATE\nSUMMARIZECOLUMNS(\n    "
                    \o JoinWith(ExpectedClauses(qConfig, qFields.ok, ExpectedMeasure), ",\n    ")
                    \o "\n)"

\* A plain plan over two row fields, the second without a table, whose
\* values hold a bracket-quoted id and a label with quotes
C16_Witness ==
    /\ qPc = "done"
    /\ C16_Plain
    /\ Len(qFields.ok) = 2
    /\ IsNone(qFields.ok[2].table) /\ ~IsNone(qFields.ok[1].table)
    /\ Len(qConfig.values) = 2
    /\ qConfig.values[1].id = Text(<<"[", "Total", "]">>)
    /\ \E i \in 1..Len(qConfig.values[1].label.k) : qConfig.values[1].label.k[i] = "\""

----------------------------------------------------------------------------
(* C17 *)

\* C17: the statement of every plan built is the SUMMARIZECOLUMNS body,
\* wrapped in CALCULATETABLE exactly when the visual has a filter, the
\* filter clauses following the body in declared order: an expression as it
\* is, a field with its include values as table[column] IN { "v1", ... } in
\* declared order with each embedded quote doubled.
C17_FiltersWrapBody ==
    qPc = "done" =>
        qPlan.ok.statement = ExpectedStatement(qConfig, qFields.ok, ExpectedMeasure)

\* A plan with an expression filter followed by a field filter whose first
\* include value holds a quote
C17_Witness ==
    /\ qPc = "done"
    /\ Len(qConfig.filters) = 2
    /\ ~IsNone(qConfig.filters[1].expression)
    /\ IsNone(qConfig.filters[2].expression)
    /\ \E i \in 1..Len(qConfig.filters[2].include.l[1].k) :
            qConfig.filters[2].include.l[1].k[i] = "\""
    /\ qFields.ok # <<>>

----------------------------------------------------------------------------
(* C18 *)

\* The placeholder expressions of the row templates, filter suffix and
\* surrounding whitespace stripped, in call order and left to right
C18_Expressions ==
    LET of(template) ==
            LET matches == SelectSeq(Segments(template), IsPh)
            IN  [i \in 1..Len(matches) |-> Join(Strip(BeforePipe(Strip(matches[i].ph))))]
    IN  Concat([i \in 1..Len(qTemplates) |-> of(qTemplates[i])])

C18_First(expression) ==
    CHOOSE i \in 1..Len(C18_Expressions) :
        /\ C18_Expressions[i] = expression
        /\ \A j \in 1..(i - 1) : C18_Expressions[j] # expression

\* C18: when extract_field_references returns, it returns one reference
\* for each distinct placeholder expression of the templates and no other,
\* ordered by the expressions' first appearance.
C18_OnePerExpressionInOrder ==
    (qPc # "extract" /\ ~IsErr(qFields)) =>
        LET found == qFields.ok
            distinct == {C18_Expressions[i] : i \in 1..Len(C18_Expressions)}
        IN  /\ Len(found) = Cardinality(distinct)
            /\ {found[i].expression : i \in 1..Len(found)} = distinct
            /\ \A i, j \in 1..Len(found) :
                    i < j => C18_First(found[i].expression) < C18_First(found[j].expression)

\* Two templates that hold the same two expressions in opposite orders,
\* one of them behind a filter suffix
C18_Witness ==
    /\ qPc = "build"
    /\ Len(qTemplates) = 2
    /\ Len(C18_Expressions) = 4
    /\ Len(qFields.ok) = 2
    /\ C18_Expressions[1] = C18_Expressions[4]
    /\ C18_Expressions[2] = C18_Expressions[3]
    /\ \E i \in 1..Len(qTemplates[1].t) :
            /\ IsPh(qTemplates[1].t[i])
            /\ \E k \in 1..Len(qTemplates[1].t[i].ph) : qTemplates[1].t[i].ph[k] = "|"

----------------------------------------------------------------------------
(* C19 *)

\* load_visual_config has finished after _load_composed_yaml returned
C19_Finished == cPhase \in {"done", "failed"} /\ cCalls[1].returned # <<>>

C19_Merged == cCalls[1].returned[1]

\* The merged document has no `type` and would load if it said "matrix"
C19_Legacy ==
    /\ "type" \notin DOMAIN C19_Merged
    /\ IsOk(_finalize_matrix_config(WithKey(C19_Merged, "type", Str("matrix"))))

\* C19: a merged document without `type` whose rows and values are valid
\* loads as a matrix visual; one of type "frame" loads, if at all, as a
\* frame; one of any other type but "matrix" fails as an unsupported visual
\* type, and no other document fails so.
C19_TypeDiscriminates ==
    C19_Finished =>
        LET visual_type == Get(C19_Merged, "type")
        IN  /\ C19_Legacy => cPhase = "done" /\ cResult.kind = "matrix"
            /\ visual_type = Str("frame") => (cPhase = "done" => cResult.kind = "frame")
            /\ visual_type = Str("matrix") => (cPhase = "done" => cResult.kind = "matrix")
            /\ (cPhase = "failed" /\ cErr.kind = "unsupported")
                    <=> visual_type \notin {None, Str("matrix"), Str("frame")}

\* What the code does with a document without `type`: MatrixConfig
\* requires the field, so the load fails in validation
C19_LegacyFailsValidation ==
    (C19_Finished /\ C19_Legacy) => cPhase = "failed" /\ cErr.kind = "validation"

\* No load of a frame finishes: the child is not accepted by FrameChildConfig
C19_FrameNeverLoads ==
    (C19_Finished /\ Get(C19_Merged, "type") = Str("frame")) => cPhase = "failed"

C19_LegacyReached == C19_Finished /\ C19_Legacy

C19_FrameChildRejected ==
    C19_Finished /\ Get(C19_Merged, "type") = Str("frame") /\ cErr.kind = "frame_child_model"

----------------------------------------------------------------------------
(* cli.py: run loads the visual and, for a matrix, _render_matrix compiles *)
(* its query.  The document composes nothing and says `type: matrix`.      *)

\* The `rows` of the document; NoChoice leaves the key out
ValidateRows ==
    {NoChoice, None, Str("City"), List(<<>>), List(<<IntV(3)>>), List(<<Str(" ")>>),
     List(<<Tpl(<<Ph(<<"dim", ".", "City">>)>>)>>),
     List(<<Map([k \in {"template", "label"} |->
                IF k = "template" THEN Tpl(<<Ph(<<" ", "dim", ".", "City", " ">>)>>)
                ELSE Str("City")]),
            Tpl(<<Ph(<<"fact", ".", "metric">>), Lit(" / "), Ph(<<"dim", ".", "City">>)>>)>>)}

ValueEntry(id) == Map([k \in {"id"} |-> id])

LabelledEntry(id, label) == Map([k \in {"id", "label"} |-> IF k = "id" THEN id ELSE label])

\* The `values` of the document
ValidateValues ==
    {NoChoice, None, List(<<>>), List(<<Str("Total")>>),
     List(<<Map([k \in {"label"} |-> Str("Sales")])>>),
     List(<<ValueEntry(IntV(3))>>),
     List(<<ValueEntry(Str(""))>>),
     List(<<ValueEntry(Str(" "))>>),
     List(<<ValueEntry(Str("Total"))>>),
     List(<<ValueEntry(Str(" Total "))>>),
     List(<<ValueEntry(Str("Total")), ValueEntry(Str("Total"))>>),
     List(<<ValueEntry(Str("Total")), LabelledEntry(Str(" Total "), Str("Sales"))>>),
     List(<<LabelledEntry(Str("Total"), Str("Sales")), ValueEntry(Str(" City "))>>),
     List(<<LabelledEntry(Str("Total"), None), LabelledEntry(Str("City"), Str(" "))>>),
     List(<<Map([k \in {"id", "show_as"} |->
                IF k = "id" THEN Str("[Total]") ELSE Str(" Percent of column total ")]),
            LabelledEntry(Str("Total"), Str("Total"))>>)}

FieldFilter(field, include) ==
    Map([k \in {"field", "include"} |-> IF k = "field" THEN field ELSE include])

ValidateFilters ==
    {NoChoice,
     List(<<Map([k \in {"expression"} |-> Str("Flag = 1")])>>),
     List(<<FieldFilter(Str("dim.City"), List(<<Str(" City "), Str("City")>>))>>)}
    \cup {List(<<FieldFilter(Str(field), List(<<Str("Seattle")>>))>>) :
            field \in {"City", "dim.", ".City", "a.b.c", " dim.City ", " "}}

\* The define of a document: none, blank, with outer whitespace, trimmed
ValidateDefines == {NoChoice, Str(" "), Str(" MEASURE m = 1 "), Str("MEASURE m = 1")}

ValidateDocument(rows, values, filters, define) ==
    LET given == [k \in {"rows", "values", "filters", "define"} |->
                    CASE k = "rows" -> rows [] k = "values" -> values [] k = "filters" -> filters
                      [] k = "define" -> define]
        keys == {k \in DOMAIN given : given[k] # NoChoice}
    IN  [k \in keys \cup {"type"} |-> IF k = "type" THEN Str("matrix") ELSE given[k]]

\* The tokens of a str of the model: quotes, brackets and dots apart
Tokens(x) ==
    CASE x = "[Total]" -> <<"[", "Total", "]">>
      [] OTHER -> <<x>>

\* The visual as build_matrix_query reads it
AsQueryConfig(visual) ==
    [values |-> [i \in 1..Len(visual.values) |->
                    [id |-> Text(Tokens(visual.values[i].id.s)),
                     label |-> IF IsNone(visual.values[i].label) THEN None
                               ELSE Text(Tokens(visual.values[i].label.s)),
                     show_as |-> visual.values[i].show_as]],
     filters |-> [i \in 1..Len(visual.filters) |->
                    [field |-> visual.filters[i].field,
                     include |-> IF IsNone(visual.filters[i].include) THEN None
                                 ELSE List([j \in 1..Len(visual.filters[i].include.l) |->
                                        Text(Tokens(visual.filters[i].include.l[j].s))]),
                     expression |-> visual.filters[i].expression]],
     define |-> visual.define]

InitValidate ==
    /\ MergeIdle /\ RenderIdle /\ BindIdle /\ ComposeIdle /\ PlanIdle /\ FrameIdle /\ ExecIdle
    /\ QueryIdle
    /\ \E rows \in ValidateRows, values \in ValidateValues, filters \in ValidateFilters,
          define \in ValidateDefines :
            vData = ValidateDocument(rows, values, filters, define)
    /\ vVisual = Ok(EmptyDict)
    /\ vFields = Ok(<<>>)
    /\ vQuery = NoError
    /\ vPc = "load"

\* cli.py:285-288: load_visual_config, for a matrix _finalize_matrix_config
\* (yaml_loader.py:244-247); a ConfigLoadError ends the run
    /\ ReloadIdle
    /\ TokenIdle
ValidateLoad ==
    /\ vPc = "load"
    /\ vVisual' = _finalize_matrix_config(vData)
    /\ vPc' = IF IsErr(vVisual') THEN "rejected" ELSE "loaded"
    /\ UNCHANGED <<vData, vFields, vQuery, exceptValidate>>

\* _render_matrix, cli.py:206-207: the row fields and the query
ValidateCompile ==
    /\ vPc = "loaded"
    /\ vFields' = extract_field_references(
                    [i \in 1..Len(vVisual.ok.rows) |-> vVisual.ok.rows[i].template])
    /\ vQuery' = IF IsErr(vFields') THEN vFields'
                 ELSE build_matrix_query(AsQueryConfig(vVisual.ok), vFields'.ok)
    /\ vPc' = IF IsErr(vQuery') THEN "failed" ELSE "compiled"
    /\ UNCHANGED <<vData, vVisual, exceptValidate>>

\* The options of a run that checks the define only (core.py:43-55)
DefineOnly ==
    [ensure_non_empty_rows |-> FALSE, ensure_values_present |-> FALSE,
     validate_define |-> TRUE]

\* core.py:185-190: the plan's define against the visual's
ValidateCheck ==
    /\ vPc = "compiled"
    /\ vPc' = IF InvariantError(DefineOnly, vVisual.ok, vQuery.ok, <<>>) = NoError
              THEN "checked" ELSE "check_failed"
    /\ UNCHANGED <<vData, vVisual, vFields, vQuery, exceptValidate>>

NextValidate == ValidateLoad \/ ValidateCompile \/ ValidateCheck

SpecValidate == InitValidate /\ [][NextValidate]_vars

----------------------------------------------------------------------------
(* C20 *)

C20_NonEmptyList(key) ==
    /\ key \in DOMAIN vData
    /\ DOMAIN vData[key] = {"l"}
    /\ vData[key].l # <<>>

\* The id of a value entry after trimming; "" when it has none
C20_Trimmed(entry) ==
    IF DOMAIN entry = {"m"} /\ "id" \in DOMAIN entry.m /\ DOMAIN entry.m["id"] = {"s"}
    THEN StripStr(entry.m["id"].s) ELSE ""

\* Rows and values are non-empty lists and the ids of the values are
\* non-empty and pairwise distinct after trimming
C20_Wellformed ==
    /\ C20_NonEmptyList("rows")
    /\ C20_NonEmptyList("values")
    /\ \A i \in 1..Len(vData["values"].l) : C20_Trimmed(vData["values"].l[i]) # ""
    /\ \A i, j \in 1..Len(vData["values"].l) :
            i < j => C20_Trimmed(vData["values"].l[i]) # C20_Trimmed(vData["values"].l[j])

C20_LabelGiven(entry) == "label" \in DOMAIN entry.m /\ entry.m["label"] # None

C20_DuplicateAfterTrimming ==
    /\ vPc = "rejected"
    /\ C20_NonEmptyList("rows") /\ C20_NonEmptyList("values")
    /\ Len(vData["values"].l) = 2
    /\ vData["values"].l[1].m["id"] # vData["values"].l[2].m["id"]
    /\ C20_Trimmed(vData["values"].l[1]) = C20_Trimmed(vData["values"].l[2])

----------------------------------------------------------------------------
(* C21 *)

\* The document loads without its filters, and has one field filter
C21_FieldFilter ==
    /\ IsOk(_finalize_matrix_config(Without(vData, {"filters"})))
    /\ "filters" \in DOMAIN vData
    /\ Len(vData["filters"].l) = 1
    /\ DOMAIN vData["filters"].l[1].m = {"field", "include"}

\* The trimmed field, each dot a token of its own
C21_Field ==
    LET field == vData["filters"].l[1].m["field"].s
    IN  CASE field \in {"dim.City", " dim.City "} -> <<"dim", ".", "City">>
          [] field = "City" -> <<"City">>
          [] field = "dim." -> <<"dim", ".">>
          [] field = ".City" -> <<".", "City">>
          [] field = "a.b.c" -> <<"a", ".", "b", ".", "c">>
          [] field = " " -> <<>>

C21_Dots == {i \in 1..Len(C21_Field) : C21_Field[i] = "."}

C21_Accepted == vPc \in {"loaded", "compiled", "failed", "checked", "check_failed"}

\* C21: a field filter is accepted exactly when its trimmed field holds a
\* dot, text before its first dot and text after it; further dots belong
\* to the column.
C21_FieldSplitsAtFirstDot ==
    (vPc # "load" /\ C21_FieldFilter) =>
        (C21_Accepted <=>
            /\ C21_Dots # {}
            /\ 1 \notin C21_Dots
            /\ \E i \in 1..Len(C21_Field) : i \notin C21_Dots /\ \E d \in C21_Dots : d < i)

\* The statement as given: accepted only with exactly one dot
C21_ExactlyOneDot ==
    (vPc # "load" /\ C21_FieldFilter) =>
        (C21_Accepted =>
            /\ Cardinality(C21_Dots) = 1
            /\ C21_Field[1] # "." /\ C21_Field[Len(C21_Field)] # ".")

\* A field with two dots was accepted and compiled
C21_Witness ==
    /\ vPc = "compiled"
    /\ C21_FieldFilter
    /\ Cardinality(C21_Dots) = 2

----------------------------------------------------------------------------
(* C22 *)

\* What load_matrix_config returns for the same document and overrides
C22_Expected ==
    LET merged == LoadMatrixMerged(bMerged, bParams, bOverrides)
    IN  IF IsErr(merged) THEN merged ELSE _finalize_matrix_config(merged.ok)

\* C22: load_visual_config called with structural overrides and parameter
\* overrides returns the matrix visual with the overridden top-level keys
\* and with its filter expressions rendered from the overridden parameters,
\* whenever the overridden document is a valid matrix.
C22_VisualLoaderTakesOverrides ==
    ( /\ bEntry = "load_visual_config"
      /\ bPc \in {"done", "failed"}
      /\ IsOk(C22_Expected) )
        => bPc = "done" /\ bResult = C22_Expected

\* load_matrix_config does return that visual
C22_MatrixLoaderTakesOverrides ==
    (bEntry = "load_matrix_config" /\ bPc \in {"done", "failed"}) => bResult = C22_Expected

\* The call of the test: a title override and an overridden parameter that
\* the filter expression names
C22_RuntimeOverridesCall ==
    /\ bEntry = "load_visual_config"
    /\ bPc = "failed"
    /\ bOverrides = [k \in {"title"} |-> Str("Runtime Title")]
    /\ bParams # EmptyDict
    /\ IsOk(C22_Expected)
    /\ C22_Expected.ok.title = Str("Runtime Title")

----------------------------------------------------------------------------
(* C23 *)

C23_Entries == C19_Merged["children"].l

\* C23: the load of a frame document does not fail once a child has loaded
\* as a matrix, and the frame it returns holds one resolved child for each
\* entry, in declared order, recording the child's source path, its visual,
\* its parameters as strings and the entry's other keys as its overrides.
C23_FrameResolvesChildren ==
    (C19_Finished /\ Get(C19_Merged, "type") = Str("frame")) =>
        /\ cErr.kind # "frame_child_model"
        /\ cPhase = "done" =>
            /\ cResult.kind = "frame"
            /\ Len(cResult.children) = Len(C23_Entries)
            /\ \A i \in 1..Len(C23_Entries) :
                LET entry == C23_Entries[i].m
                    child == cResult.children[i]
                IN  /\ child["source"] = Str(ResolveRef(cRoot, entry["ref"].s))
                    /\ "visual" \in DOMAIN child
                    /\ \A k \in DOMAIN child["parameters"] : DOMAIN child["parameters"][k] = {"s"}
                    /\ child["overrides"] = Without(entry, {"ref", "parameters"})

\* The frame of the test: one child that loads with the entry's title and
\* parameters, after which the frame load has failed
C23_ChildLoadedThenRejected ==
    /\ C19_Finished
    /\ Get(C19_Merged, "type") = Str("frame")
    /\ cPhase = "failed"
    /\ cErr.kind = "frame_child_model"
    /\ Len(C23_Entries) = 1
    /\ cVisual.ok.title = Str("Child Title")

----------------------------------------------------------------------------
(* C24 *)

C24_Titled(child) == ~IsNone(child.visual.title) /\ child.visual.title # Str("")

\* The slug of a child as the specification words it: of its title, else
\* of the stem of its source file
C24_Slug(child) ==
    IF C24_Titled(child)
    THEN CASE child.visual.title = Str("Sales Summary") -> "sales_summary"
           [] child.visual.title = Str(" Q1 Sales-Report! ") -> "q1_sales-report"
           [] child.visual.title = Str("!!!") -> "section"
    ELSE CASE child.source = "/v/b.yaml" -> "b"
           [] child.source = "/v/c.yaml" -> "c"

C24_Key(slug) == IF IsNone(fCase) THEN Str(slug) ELSE Str(fCase.s \o "__" \o slug)

\* C24: every child the frame executes gets the case key made of the slug
\* of its title, else of its source file's stem, joined to the frame's
\* case key with "__" (the bare slug without one); an entry whose source is
\* no path gets the positional slug.
C24_ChildCaseKeys ==
    /\ \A k \in 1..Len(fLog) :
            fLog[k].event = "call" =>
                fLog[k].context.case_key = C24_Key(C24_Slug(fChildren[fLog[k].index]))
    /\ _child_case_key(fCase, MatrixVisual(None), [source |-> "inline"], 2)
            = C24_Key("child_2")

\* A frame with a case key and two children, the second untitled, after
\* both were called
C24_Witness ==
    /\ ~IsNone(fCase)
    /\ Len(fChildren) = 2
    /\ fChildren[1].visual.title = Str(" Q1 Sales-Report! ")
    /\ IsNone(fChildren[2].visual.title)
    /\ \E j, k \in 1..Len(fLog) :
            /\ j < k
            /\ fLog[j].event = "call" /\ fLog[j].index = 1
            /\ fLog[k].event = "call" /\ fLog[k].index = 2
            /\ fLog[j].context.case_key = Str("case1__q1_sales-report")
            /\ fLog[k].context.case_key = Str("case1__c")

----------------------------------------------------------------------------
(* C25 *)

\* The document _apply_parameter_templates was given
C25_Before == Without(bData, {"parameters"})

C25_Bound == bPc \in {"done", "failed"} /\ bBound # Ok(EmptyDict) /\ IsOk(bBound)

\* Two lists of items agree but for the key `field` of their mappings
C25_SameBut(before, after, field) ==
    /\ Len(after) = Len(before)
    /\ \A i \in 1..Len(before) :
            IF DOMAIN before[i] = {"m"}
            THEN /\ DOMAIN after[i] = {"m"}
                 /\ DOMAIN after[i].m = DOMAIN before[i].m
                 /\ \A k \in DOMAIN before[i].m \ {field} : after[i].m[k] = before[i].m[k]
            ELSE after[i] = before[i]

\* C25: the bound document has the keys of the document before binding;
\* every key but rows and filters has its value, every row but for its
\* label and every filter but for its expression is as it was, so every
\* row template is the text it was.
C25_OnlyLabelsAndExpressions ==
    C25_Bound =>
        /\ DOMAIN bBound.ok = DOMAIN C25_Before
        /\ \A k \in DOMAIN C25_Before \ {"rows", "filters"} : bBound.ok[k] = C25_Before[k]
        /\ C25_SameBut(C25_Before["rows"].l, bBound.ok["rows"].l, "label")
        /\ C25_SameBut(C25_Before["filters"].l, bBound.ok["filters"].l, "expression")

\* The context names the expression of the row template, and binding
\* rendered the row's label
C25_Witness ==
    /\ C25_Bound
    /\ "dim.City" \in DOMAIN bContext
    /\ C25_Before["rows"].l[1].m["template"] = Tpl(<<Ph(<<"dim.City">>)>>)
    /\ "label" \in DOMAIN C25_Before["rows"].l[1].m
    /\ bBound.ok["rows"].l[1].m["label"] # C25_Before["rows"].l[1].m["label"]
    /\ bBound.ok["filters"].l[1].m["expression"] # C25_Before["filters"].l[1].m["expression"]

----------------------------------------------------------------------------
(* C28 *)

\* The define the document declares, trimmed; "" when it declares none
C28_Declared ==
    IF "define" \notin DOMAIN vData THEN ""
    ELSE CASE vData["define"] = Str(" ") -> ""
           [] vData["define"] \in {Str(" MEASURE m = 1 "), Str("MEASURE m = 1")}
                -> "MEASURE m = 1"

C28_StartsWith(text, prefix) ==
    Len(text) >= Len(prefix) /\ SubSeq(text, 1, Len(prefix)) = prefix

C28_Compiled == vPc \in {"compiled", "checked", "check_failed"}

\* C28: the plan compiled from a validated visual has the declared define
\* trimmed as its define, and none when the document declares none or a
\* blank one; its statement starts with DEFINE, the define, a blank line and
\* EVALUATE when the plan has a define and with EVALUATE when it has none;
\* the validate_define check of such a plan never fails.
C28_DefineKept ==
    C28_Compiled =>
        /\ vQuery.ok.define = (IF C28_Declared = "" THEN None ELSE Str(C28_Declared))
        /\ vVisual.ok.define = vQuery.ok.define
        /\ IF vQuery.ok.define = None
           THEN C28_StartsWith(vQuery.ok.statement, "EVALUATE\n")
           ELSE C28_StartsWith(vQuery.ok.statement,
                               "DEFINE\n" \o C28_Declared \o "\n\nEVALUATE\n")
        /\ vPc # "check_failed"

\* A document whose define has outer whitespace was compiled and its plan
\* checked
C28_Witness ==
    /\ vPc = "checked"
    /\ "define" \in DOMAIN vData
    /\ vData["define"] = Str(" MEASURE m = 1 ")
    /\ vQuery.ok.define = Str("MEASURE m = 1")

\* A document with a blank define was compiled to a plan without define
C28_BlankDefine ==
    /\ vPc = "checked"
    /\ "define" \in DOMAIN vData
    /\ vData["define"] = Str(" ")
    /\ vQuery.ok.define = None

----------------------------------------------------------------------------
(* load_matrix_config called more than once with one overrides object     *)
(* (yaml_loader.py:146-168): which values of the merged document are the  *)
(* caller's own objects, and what the binder writes through them.         *)

\* _merge_dicts(merged, overrides), yaml_loader.py:47-58: the keys whose
\* value in the result is the update's own object (line 57); a mapping
\* merged into a mapping is a new dict (line 55)
SharedKeys(base, update) ==
    {k \in DOMAIN update : ~(k \in DOMAIN base /\ IsDict(base[k]) /\ IsDict(update[k]))}

\* The loops of yaml_loader.py:114-119 and 122-127 as they leave the list:
\* `item[field] = ...` is written item by item, up to the first item whose
\* rendering raises
RECURSIVE RenderedInPlace(_, _, _, _)
RenderedInPlace(items, field, context, location) ==
    IF items = <<>> THEN <<>>
    ELSE LET first == RenderItem(Head(items), field, context, location)
         IN  IF IsErr(first) THEN items
             ELSE <<first.ok>> \o RenderedInPlace(Tail(items), field, context, location)

\* yaml_loader.py:112-127 as it leaves `data`, whether it returns or raises
AppliedInPlace(data, context) ==
    LET isList(k) == k \in DOMAIN data /\ IsList(data[k])
        rowsRaise == /\ isList("rows")
                     /\ IsErr(RenderItems(data["rows"].l, "label", context, "row label"))
    IN  [k \in DOMAIN data |->
            IF k = "rows" /\ isList(k)
            THEN List(RenderedInPlace(data[k].l, "label", context, "row label"))
            ELSE IF k = "filters" /\ isList(k) /\ ~rowsRaise
            THEN List(RenderedInPlace(data[k].l, "expression", context, "filter expression"))
            ELSE data[k]]

\* The number of calls made with the one overrides object
MaxLoads == 2

\* The file: the document of tests/test_yaml_loader.py:41-56 with a
\* templated row label and filter expression, with and without parameters
ReloadFiles ==
    {BaseDoc(Str("Base Title"), Choice(<<Nm("CityLabel", "padded")>>),
             Choice(<<Txt("Flag = "), Nm("Flag", "bare")>>), parameters) :
        parameters \in {None,
                        Map([k \in {"Flag", "CityLabel"} |->
                                IF k = "Flag" THEN Str("DEFAULT") ELSE Str("Base")])}}

ReloadRow(label) ==
    Map([k \in {"template", "label"} |->
            IF k = "template" THEN Tpl(<<Ph(<<"dim.City">>)>>) ELSE label])

\* The overrides a caller passes: none, a title, rows with a templated
\* label, filters with a templated expression, both, rows whose second
\* label cannot be rendered, parameters, and parameters that are no mapping
ReloadOverrides ==
    LET label == Choice(<<Nm("CityLabel", "bare")>>).value
        missing == Choice(<<Nm("Zed", "bare")>>).value
        filter == Map([k \in {"expression"} |->
                        Choice(<<Txt("Flag = "), Nm("Flag", "padded")>>).value])
    IN  {EmptyDict,
         [k \in {"title"} |-> Str("Runtime Title")],
         [k \in {"rows"} |-> List(<<ReloadRow(label)>>)],
         [k \in {"filters"} |-> List(<<filter>>)],
         [k \in {"rows", "filters"} |->
            IF k = "rows" THEN List(<<ReloadRow(Str("City"))>>) ELSE List(<<filter>>)],
         [k \in {"rows"} |-> List(<<ReloadRow(label), ReloadRow(missing)>>)],
         [k \in {"parameters"} |->
            Map([j \in {"CityLabel", "Flag"} |-> Str("OV")])],
         [k \in {"parameters"} |-> Str("oops")]}

ReloadParameters ==
    {EmptyDict,
     [k \in {"CityLabel", "Flag"} |-> IF k = "Flag" THEN Str("TRUE()") ELSE Str("Downtown")],
     [k \in {"CityLabel", "Flag"} |-> IF k = "Flag" THEN Str("FALSE()") ELSE Str("Uptown")]}

InitReload ==
    /\ oFile \in ReloadFiles
    /\ oOverrides \in ReloadOverrides
    /\ oGiven = oOverrides
    /\ oParams \in [1..MaxLoads -> ReloadParameters]
    /\ oCall = 0
    /\ oData = EmptyDict
    /\ oShared = {}
    /\ oPc = "merge"
    /\ oResults = <<>>
    /\ MergeIdle /\ RenderIdle /\ BindIdle /\ ComposeIdle /\ PlanIdle /\ FrameIdle /\ ExecIdle
    /\ QueryIdle /\ ValidateIdle

\* The call in hand has returned or raised: the next call, if any
    /\ TokenIdle
ReloadReturn(outcome) ==
    /\ oResults' = Append(oResults, outcome)
    /\ oCall' = oCall + 1
    /\ oPc' = IF oCall + 1 < Len(oParams) THEN "merge" ELSE "done"

\* yaml_loader.py:155-166: the file is read anew, the overrides are merged
\* into its document and the parameter overrides into its parameters
ReloadMerge ==
    /\ oPc = "merge"
    /\ LET overridden == IF oOverrides # EmptyDict THEN _merge_dicts(oFile, oOverrides)
                         ELSE oFile
           shared == IF oOverrides # EmptyDict THEN SharedKeys(oFile, oOverrides) ELSE {}
           params == oParams[oCall + 1]
           existing == PoppedParameters(overridden)
       IN  IF params = EmptyDict
           THEN /\ oData' = overridden
                /\ oShared' = shared
                /\ oPc' = "finalize"
                /\ UNCHANGED <<oResults, oCall>>
           ELSE IF ~IsDict(existing)
           THEN /\ oData' = overridden
                /\ oShared' = shared
                /\ ReloadReturn(Err([kind |-> "parameters"]))
           ELSE /\ oData' = WithKey(overridden, "parameters",
                                    Map(ShallowMerge(existing.m, params)))
                /\ oShared' = shared \ {"parameters"}
                /\ oPc' = "finalize"
                /\ UNCHANGED <<oResults, oCall>>
    /\ UNCHANGED <<oFile, oOverrides, oGiven, oParams, exceptReload>>

\* yaml_loader.py:168 and 130-143: the parameters are popped, the templates
\* of `data` are rendered in place, and the document is validated; what is
\* written to a value that is the caller's object is written to the
\* overrides
ReloadFinalize ==
    /\ oPc = "finalize"
    /\ LET parameters == PoppedParameters(oData)
           rest == Without(oData, {"parameters"})
           left == IF IsDict(parameters)
                   THEN AppliedInPlace(rest, _build_context(rest, parameters.m))
                   ELSE rest
       IN  /\ oData' = left
           /\ oOverrides' = [k \in DOMAIN oOverrides |->
                                IF k \in oShared /\ k \in DOMAIN left THEN left[k]
                                ELSE oOverrides[k]]
           /\ ReloadReturn(_finalize_matrix_config(oData))
    /\ UNCHANGED <<oFile, oGiven, oParams, oShared, exceptReload>>

NextReload == ReloadMerge \/ ReloadFinalize

SpecReload == InitReload /\ [][NextReload]_vars

----------------------------------------------------------------------------
(* C29 *)

\* What load_matrix_config returns for the file, the overrides as the
\* caller built them, and the parameter overrides of call i
C29_FromOriginal(i) ==
    LET overridden == IF oGiven # EmptyDict THEN _merge_dicts(oFile, oGiven) ELSE oFile
        existing == PoppedParameters(overridden)
    IN  IF oParams[i] = EmptyDict THEN _finalize_matrix_config(overridden)
        ELSE IF ~IsDict(existing) THEN Err([kind |-> "parameters"])
        ELSE _finalize_matrix_config(
                WithKey(overridden, "parameters", Map(ShallowMerge(existing.m, oParams[i]))))

\* C29: load_matrix_config leaves the caller's overrides, nested rows and
\* filters included, equal to what they were before the call, and every
\* call with the same overrides object returns what a call with the
\* overrides as first built returns for its parameter overrides.
C29_OverridesNeverMutated ==
    /\ oOverrides = oGiven
    /\ \A i \in 1..Len(oResults) : oResults[i] = C29_FromOriginal(i)

\* What the calls do leave alone: the keys of the overrides, every value
\* other than rows and filters, the number of rows and filters, and every
\* field of a row other than its label and of a filter other than its
\* expression
C29_OnlyTemplatesWritten ==
    /\ DOMAIN oOverrides = DOMAIN oGiven
    /\ \A k \in DOMAIN oGiven :
            IF k \in {"rows", "filters"}
            THEN /\ Len(oOverrides[k].l) = Len(oGiven[k].l)
                 /\ \A i \in 1..Len(oGiven[k].l) :
                        /\ DOMAIN oOverrides[k].l[i].m = DOMAIN oGiven[k].l[i].m
                        /\ \A f \in DOMAIN oGiven[k].l[i].m \ {"label", "expression"} :
                                oOverrides[k].l[i].m[f] = oGiven[k].l[i].m[f]
            ELSE oOverrides[k] = oGiven[k]

\* Two calls with overridden rows labelled {{CityLabel}}: after the first,
\* with CityLabel Downtown, the caller's row is labelled Downtown, and the
\* second, with CityLabel Uptown, returns a row labelled Downtown
C29_TemplateLost ==
    /\ Len(oResults) = 2
    /\ "rows" \in DOMAIN oGiven
    /\ oGiven["rows"].l[1].m["label"] = Tpl(<<Ph(<<"CityLabel">>)>>)
    /\ oOverrides["rows"].l[1].m["label"] = Str("Downtown")
    /\ oParams[1] # EmptyDict /\ oParams[1]["CityLabel"] = Str("Downtown")
    /\ oParams[2] # EmptyDict /\ oParams[2]["CityLabel"] = Str("Uptown")
    /\ DOMAIN oResults[2] = {"ok"}
    /\ oResults[2].ok.rows[1].label = Str("Downtown")

----------------------------------------------------------------------------
(* powerbi.py: PowerBIClient.get_access_token and execute_dax called by    *)
(* concurrent tasks of one event loop.  A step is what a task does between *)
(* two awaits that can suspend it, or a part of it.                        *)

\* The number of concurrent callers of the one client
MaxCallers == 2

\* The number of times the clock advances, by 30 seconds each time
MaxTicks == 3

Callers == 1..MaxCallers

\* powerbi.py:81: a cached token is reused while it expires more than 60
\* seconds ahead
CacheMargin == 60

\* A lock that is never held
AcquireAlways(lock, waiters) == TRUE

\* asyncio.Lock.acquire without suspending (powerbi.py:80): the lock is
\* free and no task waits for it
CanAcquire(lock, waiters) == lock = 0 /\ waiters = <<>>

\* powerbi.py:81
Fresh(access, expires, now) ==
    /\ access # None
    /\ expires # None
    /\ expires.i # 0
    /\ expires.i - CacheMargin > now

\* The answers of the token endpoint: a status other than 200, a payload
\* without access_token, and a token whose expires_in is absent, a str, 60
\* or 120 seconds
TokenResponses ==
    {[status |-> 401, token |-> FALSE, expires_in |-> None],
     [status |-> 200, token |-> FALSE, expires_in |-> IntV(120)]}
    \cup {[status |-> 200, token |-> TRUE, expires_in |-> e] :
            e \in {None, Str("3600"), IntV(60), IntV(120)}}

InitToken ==
    /\ tKind \in [Callers -> {"get_access_token", "execute_dax"}]
    /\ tPc = [c \in Callers |-> "start"]
    /\ tLock = 0
    /\ tWaiters = <<>>
    /\ tAccess = None
    /\ tExpires = None
    /\ tNow = 0
    /\ tLog = <<>>
    /\ tGot = [c \in Callers |-> None]
    /\ tIssued = 0
    /\ MergeIdle /\ RenderIdle /\ BindIdle /\ ComposeIdle /\ PlanIdle /\ FrameIdle /\ ExecIdle
    /\ QueryIdle /\ ValidateIdle /\ ReloadIdle

\* powerbi.py:80, `async with self._lock`: the lock is taken, or the task
\* joins the waiters
TokenEnter(c) ==
    /\ tPc[c] = "start"
    /\ IF CanAcquire(tLock, tWaiters)
       THEN /\ tLock' = c
            /\ tPc' = [tPc EXCEPT ![c] = "check"]
            /\ UNCHANGED tWaiters
       ELSE /\ tWaiters' = Append(tWaiters, c)
            /\ tPc' = [tPc EXCEPT ![c] = "waiting"]
            /\ UNCHANGED tLock
    /\ UNCHANGED <<tKind, tAccess, tExpires, tNow, tLog, tGot, tIssued, exceptToken>>

\* asyncio.Lock: the release wakes the first waiter, which takes the lock
TokenWake(c) ==
    /\ tPc[c] = "waiting"
    /\ tLock = 0
    /\ Head(tWaiters) = c
    /\ tLock' = c
    /\ tWaiters' = Tail(tWaiters)
    /\ tPc' = [tPc EXCEPT ![c] = "check"]
    /\ UNCHANGED <<tKind, tAccess, tExpires, tNow, tLog, tGot, tIssued, exceptToken>>

\* powerbi.py:81-95: the cached token is returned and the lock released, or
\* the token request is sent
TokenCheck(c) ==
    /\ tPc[c] = "check"
    /\ IF Fresh(tAccess, tExpires, tNow)
       THEN /\ tGot' = [tGot EXCEPT ![c] = tAccess]
            /\ tLock' = 0
            /\ tPc' = [tPc EXCEPT ![c] = "returned"]
            /\ UNCHANGED tLog
       ELSE /\ tLog' = Append(tLog, [kind |-> "token", by |-> c])
            /\ tPc' = [tPc EXCEPT ![c] = "posting"]
            /\ UNCHANGED <<tGot, tLock>>
    /\ UNCHANGED <<tKind, tWaiters, tAccess, tExpires, tNow, tIssued, exceptToken>>

\* powerbi.py:95-112: the answer to the token request; the lock is released
\* when the block is left, by return or by exception
TokenResponse(c) ==
    /\ tPc[c] = "posting"
    /\ \E response \in TokenResponses :
            IF response.status # 200 \/ ~response.token
            THEN /\ tPc' = [tPc EXCEPT ![c] = "failed"]
                 /\ UNCHANGED <<tAccess, tExpires, tGot, tIssued>>
            ELSE /\ tIssued' = tIssued + 1
                 /\ tAccess' = [token |-> tIssued']
                 /\ tExpires' = IF DOMAIN response.expires_in = {"i"}
                                THEN IntV(tNow + response.expires_in.i) ELSE None
                 /\ tGot' = [tGot EXCEPT ![c] = tAccess']
                 /\ tPc' = [tPc EXCEPT ![c] = "returned"]
    /\ tLock' = 0
    /\ UNCHANGED <<tKind, tWaiters, tNow, tLog, exceptToken>>

\* powerbi.py:121-133: execute_dax, the token in hand, sends the query
DaxPost(c) ==
    /\ tKind[c] = "execute_dax"
    /\ tPc[c] = "returned"
    /\ tLog' = Append(tLog, [kind |-> "query", by |-> c])
    /\ tPc' = [tPc EXCEPT ![c] = "query"]
    /\ UNCHANGED <<tKind, tLock, tWaiters, tAccess, tExpires, tNow, tGot, tIssued,
                   exceptToken>>

\* powerbi.py:135-147: the rows, or PowerBIQueryError
DaxResponse(c) ==
    /\ tPc[c] = "query"
    /\ \E ok \in BOOLEAN : tPc' = [tPc EXCEPT ![c] = IF ok THEN "done" ELSE "failed"]
    /\ UNCHANGED <<tKind, tLock, tWaiters, tAccess, tExpires, tNow, tLog, tGot, tIssued,
                   exceptToken>>

\* time.time(), powerbi.py:81 and 108, moves on
Tick ==
    /\ tNow < 30 * MaxTicks
    /\ tNow' = tNow + 30
    /\ UNCHANGED <<tKind, tPc, tLock, tWaiters, tAccess, tExpires, tLog, tGot, tIssued,
                   exceptToken>>

NextToken ==
    \/ \E c \in Callers : TokenEnter(c)
    \/ \E c \in Callers : TokenWake(c)
    \/ \E c \in Callers : TokenCheck(c)
    \/ \E c \in Callers : TokenResponse(c)
    \/ \E c \in Callers : DaxPost(c)
    \/ \E c \in Callers : DaxResponse(c)
    \/ Tick

SpecToken == InitToken /\ [][NextToken]_vars

----------------------------------------------------------------------------
(* C30 *)

\* The callers whose token request has been sent and not yet answered
C30_InFlight == {c \in Callers : tPc[c] = "posting"}

\* The requests of a kind that a caller has sent, by position in the log
C30_Sent(c, kind) == {i \in 1..Len(tLog) : tLog[i] = [kind |-> kind, by |-> c]}

C30_TokenRequests(log) == {i \in 1..Len(log) : log[i].kind = "token"}

\* A token is stored and expires more than 60 seconds from now
C30_Stored == tIssued > 0 /\ tExpires # None /\ tExpires.i > tNow + 60

\* C30: at most one token request is in flight at any time and it is the
\* lock holder's; a caller that makes its cache check while a stored token
\* expires more than 60 seconds ahead returns that token and no token
\* request is sent; a caller sends at most one token request and at most one
\* query request, the query only from execute_dax, after its token request
\* if it sent one and after it got a token.
C30_TokenSerialized ==
    /\ [](Cardinality(C30_InFlight) <= 1)
    /\ [](\A c \in Callers : tPc[c] \in {"check", "posting"} => tLock = c)
    /\ [][\A c \in Callers :
            (tPc[c] = "check" /\ tPc'[c] # "check" /\ C30_Stored) =>
                /\ tPc'[c] = "returned"
                /\ tGot'[c] = tAccess
                /\ tAccess' = tAccess
                /\ C30_TokenRequests(tLog') = C30_TokenRequests(tLog)]_vars
    /\ [](\A c \in Callers :
            /\ Cardinality(C30_Sent(c, "token")) <= 1
            /\ Cardinality(C30_Sent(c, "query")) <= 1
            /\ C30_Sent(c, "query") # {} => (tKind[c] = "execute_dax" /\ tGot[c] # None)
            /\ \A i \in C30_Sent(c, "token"), j \in C30_Sent(c, "query") : i < j)

\* Two callers: the first refreshed, the second waited for the lock while
\* the request was in flight, got the stored token without a request of
\* its own, and has sent its query
C30_Witness ==
    /\ tLog = <<[kind |-> "token", by |-> 1], [kind |-> "query", by |-> 2]>>
    /\ tGot[1] = [token |-> 1]
    /\ tGot[2] = [token |-> 1]
    /\ tPc[2] = "done"

\* A stored token that does not expire more than 60 seconds ahead is
\* replaced: the second caller sent a token request of its own
C30_RefreshedAfterExpiry ==
    /\ tGot[1] = [token |-> 1]
    /\ tGot[2] = [token |-> 2]
    /\ tLog[1] = [kind |-> "token", by |-> 1]
    /\ tExpires # None

====
